---------------------------- MODULE Spec2Model ----------------------------
(***************************************************************************)
(* Catalyst8-Signal: candle acquisition with an ordered fallback chain,    *)
(* the deterministic demo generator, the indicator library, the scoring    *)
(* engine of generateSignal and the /api/signal request handler.           *)
(*                                                                         *)
(* Numbers.  The JavaScript code computes in IEEE doubles.  The model      *)
(* computes in exact fixed point:                                          *)
(*   prices             integer hundredths           (PriceScale)          *)
(*   ratios, returns    integer 1/100000            (RatioScale)          *)
(*   scores, threshold  integer 1/400000            (ScoreScale)          *)
(* ScoreScale is the least scale on which every weight (tenths), the       *)
(* factors 0.95 and 0.93 and the overlap factor 0.35 stay integral.        *)
(* JavaScript null / undefined and NaN are two integers that no quantity   *)
(* of the model can take (TLC compares only values of one kind).           *)
(***************************************************************************)
EXTENDS Integers, Sequences, FiniteSets, TLC

Null == -2000000000
NaN == -2000000001
IsNull(x) == x = Null

PriceScale == 100
RatioScale == 100000
ScoreScale == 400000

\* ------------------------------------------------------------------------
\* Bounds of the model
\* ------------------------------------------------------------------------
\* largest number of rows a provider answers with
MaxRows == 3
\* largest limit passed to fetchOHLCV
MaxLimit == 2

\* ------------------------------------------------------------------------
\* Arithmetic helpers
\* ------------------------------------------------------------------------
Abs(x) == IF x < 0 THEN -x ELSE x
Max2(a, b) == IF a >= b THEN a ELSE b
Min2(a, b) == IF a <= b THEN a ELSE b

\* floor(a*b/c) for c > 0 without leaving 32 bits when (c-1)*|b| fits
MulDiv(a, b, c) == (a \div c) * b + ((a % c) * b) \div c

\* Math.max(min, Math.min(max, value))
clamp(value, min, max) == Max2(min, Min2(max, value))

\* Array.prototype.slice(-k) for k >= 0; slice(-0) is slice(0), the whole array
SliceLast(s, k) ==
    IF k = 0 \/ k >= Len(s) THEN s ELSE SubSeq(s, Len(s) - k + 1, Len(s))

\* ------------------------------------------------------------------------
\* Symbols and timeframes
\* ------------------------------------------------------------------------
\* a symbol is its text and the char codes of the text
SymBTC == [name |-> "BTCUSDT", codes |-> <<66, 84, 67, 85, 83, 68, 84>>]
SymSOL == [name |-> "SOLUSDT", codes |-> <<83, 79, 76, 85, 83, 68, 84>>]
SymUnknown == [name |-> "PEPEUSDT", codes |-> <<80, 69, 80, 69, 85, 83, 68, 84>>]
Symbols == {SymBTC, SymSOL, SymUnknown}

Tf15m == [name |-> "15m", codes |-> <<49, 53, 109>>]
Tf4h == [name |-> "4h", codes |-> <<52, 104>>]
TfUnknown == [name |-> "2w", codes |-> <<50, 119>>]
Timeframes == {Tf15m, Tf4h, TfUnknown}


\* ------------------------------------------------------------------------
\* generateDemoData: deterministic pseudo-random candles
\* ------------------------------------------------------------------------
\* clock readings Date.now() can return, in ms from an arbitrary origin
NowValues == {1000000000, 1000000001, 1000900000}

\* a signed 32-bit value from its two unsigned 16-bit halves
Wrap32(hi, lo) ==
    IF hi >= 32768 THEN (hi - 65536) * 65536 + lo ELSE hi * 65536 + lo

\* ((seed << 5) - seed + ch.charCodeAt(0)) | 0, i.e. 31*seed + code mod 2^32
HashStep(seed, code) ==
    LET hi == (seed \div 65536) % 65536
        lo == seed % 65536
        lo2 == 31 * lo + code
        hi2 == (31 * hi + lo2 \div 65536) % 65536
    IN  Wrap32(hi2, lo2 % 65536)

RECURSIVE HashCodes(_, _)
HashCodes(seed, codes) ==
    IF codes = << >> THEN seed
    ELSE HashCodes(HashStep(seed, Head(codes)), Tail(codes))

\* let seed = 0; for (const ch of symbol + timeframe) seed = ...
SeedOf(symbol, timeframe) == HashCodes(0, symbol.codes \o timeframe.codes)

LcgModulus == 2147483647
LcgMultiplier == 16807

\* (a * 16807) % 2147483647 for 0 <= a < 2147483647 (Schrage's split keeps
\* the product inside 32 bits; the double product of the code is exact)
LcgMulMod(a) ==
    LET q == LcgModulus \div LcgMultiplier
        r == LcgModulus % LcgMultiplier
        t == LcgMultiplier * (a % q) - r * (a \div q)
    IN  IF t < 0 THEN t + LcgModulus ELSE t

\* seed = (seed * 16807 + 0) % 2147483647; the remainder of JavaScript has
\* the sign of the dividend, so a negative seed stays negative
LcgNext(seed) ==
    LET a == IF seed = (-2147483647) - 1 THEN 1 ELSE Abs(seed) % LcgModulus
    IN  IF seed < 0 THEN -LcgMulMod(a) ELSE LcgMulMod(a)

\* (seed & 0x7fffffff) / 2147483647, kept to three decimals (0..1000)
RandOf(seed) ==
    LET masked == IF seed >= 0 THEN seed ELSE (seed + 2147483647) + 1
    IN  masked \div 2147484

basePrices(name) ==
    CASE name = "BTCUSDT" -> 96500 * PriceScale
      [] name = "SOLUSDT" -> 195 * PriceScale
      [] OTHER -> 50000 * PriceScale

\* msMap[timeframe] || 14400000
msMap(name) ==
    CASE name = "15m" -> 900000
      [] name = "1h" -> 3600000
      [] name = "4h" -> 14400000
      [] name = "1d" -> 86400000
      [] OTHER -> 14400000

\* one iteration of the candle loop: five draws of rand()
DemoCandle(seed, price, ts, trend, volatility) ==
    LET s1 == LcgNext(seed)
        s2 == LcgNext(s1)
        s3 == LcgNext(s2)
        s4 == LcgNext(s3)
        s5 == LcgNext(s4)
        change == ((RandOf(s1) - 500 + trend * 2) * volatility) \div 1000
        open == price + MulDiv(price, change, RatioScale)
        high == open + MulDiv(open, (RandOf(s2) * volatility) \div 2000, RatioScale)
        low == open - MulDiv(open, (RandOf(s3) * volatility) \div 2000, RatioScale)
        close == low + (RandOf(s4) * (high - low)) \div 1000
    IN  [seed |-> s5,
         candle |-> [timestamp |-> ts, open |-> open, high |-> high, low |-> low,
                     close |-> close, volume |-> 100000 + RandOf(s5) * 400]]

\* the candle loop for count iterations from a loop state; the iterations
\* are split in two halves so that evaluation depth stays logarithmic
RECURSIVE DemoLoop(_, _, _, _, _, _, _)
DemoLoop(count, seed, price, ts, intervalMs, trend, volatility) ==
    IF count <= 0 THEN [seed |-> seed, price |-> price, ts |-> ts, ohlcv |-> << >>]
    ELSE IF count = 1
    THEN LET step == DemoCandle(seed, price, ts, trend, volatility)
         IN  [seed |-> step.seed, price |-> step.candle.close, ts |-> ts + intervalMs,
              ohlcv |-> <<step.candle>>]
    ELSE LET a == DemoLoop(count \div 2, seed, price, ts, intervalMs, trend, volatility)
             mid == <<a.seed, a.price, a.ts>>
         IN  IF mid = mid   \* evaluates the first half before the second starts
             THEN LET b == DemoLoop(count - count \div 2, mid[1], mid[2], mid[3],
                                    intervalMs, trend, volatility)
                  IN  [seed |-> b.seed, price |-> b.price, ts |-> b.ts,
                       ohlcv |-> a.ohlcv \o b.ohlcv]
             ELSE a

\* the timestamp of the first candle: Date.now() - limit * intervalMs
DemoStart(timeframe, limit, now) == now - limit * msMap(timeframe.name)

\* the generator with the clock mixed into the seed
generateDemoData_ClockSeeded(symbol, timeframe, limit, now) ==
    LET s0 == HashStep(SeedOf(symbol, timeframe), now % 65536)
        s1 == LcgNext(s0)
        s2 == LcgNext(s1)
        trend == IF RandOf(s1) > 500 THEN 1 ELSE -1
        volatility == 1000 + RandOf(s2) * 2
    IN  DemoLoop(limit, s2, basePrices(symbol.name),
                 DemoStart(timeframe, limit, now), msMap(timeframe.name),
                 trend, volatility).ohlcv

\* generateDemoData(symbol, timeframe, limit) called when Date.now() = now
generateDemoData(symbol, timeframe, limit, now) ==
    LET s0 == SeedOf(symbol, timeframe)
        s1 == LcgNext(s0)
        s2 == LcgNext(s1)
        trend == IF RandOf(s1) > 500 THEN 1 ELSE -1
        volatility == 1000 + RandOf(s2) * 2
    IN  DemoLoop(limit, s2, basePrices(symbol.name),
                 DemoStart(timeframe, limit, now), msMap(timeframe.name),
                 trend, volatility).ohlcv

\* ------------------------------------------------------------------------
\* Provider answers
\* ------------------------------------------------------------------------
\* outcome of a call that either returns a value or throws / rejects
Returned(v) == [thrown |-> FALSE, value |-> v, error |-> ""]
Thrown(e) == [thrown |-> TRUE, value |-> << >>, error |-> e]

\* a decimal numeral as the provider sends it: the char codes of its text
RECURSIVE NumeralOf(_)
NumeralOf(n) ==
    IF n < 10 THEN <<48 + n>> ELSE NumeralOf(n \div 10) \o <<48 + (n % 10)>>

\* the text "whole.ff" of a price given in hundredths
PriceText(cents) ==
    NumeralOf(cents \div 100) \o <<46, 48 + (cents % 100) \div 10, 48 + (cents % 10)>>

IsDigit(c) == c >= 48 /\ c <= 57

RECURSIVE DigitsValue(_, _)
DigitsValue(acc, cs) ==
    IF cs = << >> THEN acc ELSE DigitsValue(acc * 10 + (Head(cs) - 48), Tail(cs))

\* unary plus on a string, in hundredths: digits, optionally a point and
\* more digits; anything else is NaN
UnaryPlus(text) ==
    LET dots == {i \in 1..Len(text) : text[i] = 46}
        dot == IF dots = {} THEN Len(text) + 1 ELSE CHOOSE d \in dots : \A j \in dots : d <= j
        whole == SubSeq(text, 1, dot - 1)
        frac == SubSeq(text, dot + 1, Len(text))
        frac2 == SubSeq(frac \o <<48, 48>>, 1, 2)
    IN  IF Cardinality(dots) > 1 \/ (\E k \in 1..Len(whole) : ~IsDigit(whole[k]))
                \/ (\E m \in 1..Len(frac) : ~IsDigit(frac[m]))
        THEN NaN
        ELSE DigitsValue(0, whole) * PriceScale + DigitsValue(0, frac2)

\* kline i of the primary provider: [openTime, "open", "high", "low", "close", "volume"]
Kline(i) ==
    <<i * 900000, PriceText(10000 + 10 * i), PriceText(10050 + 10 * i),
      PriceText(9950 + 10 * i), PriceText(10020 + 10 * i), NumeralOf(1000 + i)>>

\* what the primary provider can answer
BinanceKinds ==
    {"network_error", "timeout", "http_error", "bad_json", "not_array",
     "null_row", "scalar_row", "rows"}
BinanceResponses ==
    {r \in [kind : BinanceKinds, n : 0..MaxRows] :
        r.kind \in {"null_row", "scalar_row", "rows"} \/ r.n = 0}

\* c => ({timestamp: c[0], open: +c[1], ...})
BinanceCandle(c) ==
    [timestamp |-> c[1], open |-> UnaryPlus(c[2]), high |-> UnaryPlus(c[3]),
     low |-> UnaryPlus(c[4]), close |-> UnaryPlus(c[5]), volume |-> UnaryPlus(c[6])]

\* c[k] of a number is undefined, and +undefined is NaN
ScalarRowCandle ==
    [timestamp |-> Null, open |-> NaN, high |-> NaN, low |-> NaN,
     close |-> NaN, volume |-> NaN]

fetchFromBinance(resp) ==
    CASE resp.kind \in {"network_error", "timeout"} -> Thrown("fetch failed")
      [] resp.kind = "http_error" -> Thrown("Binance status")
      [] resp.kind = "bad_json" -> Thrown("SyntaxError")
      [] resp.kind = "not_array" -> Thrown("TypeError: data.map is not a function")
      [] resp.kind = "null_row" ->
            IF resp.n = 0 THEN Returned(<< >>) ELSE Thrown("TypeError: c is null")
      [] resp.kind = "scalar_row" -> Returned([i \in 1..resp.n |-> ScalarRowCandle])
      [] OTHER -> Returned([i \in 1..resp.n |-> BinanceCandle(Kline(i))])

\* what the secondary provider can answer: np price points, nv volume points
GeckoKinds ==
    {"network_error", "timeout", "http_error", "bad_json", "null_body",
     "no_prices", "prices_not_array", "null_point", "series"}
GeckoResponses ==
    {r \in [kind : GeckoKinds, np : 0..MaxRows, nv : 0..MaxRows] :
        \/ r.kind = "series"
        \/ r.kind = "null_point" /\ r.nv = 0
        \/ r.np = 0 /\ r.nv = 0}

\* data.prices and data.total_volumes: [timestamp, value] pairs
GeckoPrices(np) == [i \in 1..np |-> <<i * 3600000, 10000 + 10 * i>>]
GeckoVolumes(nv) == [i \in 1..nv |-> <<i * 3600000, 1000 + i>>]

\* the index into volumes that goes with position i (from 1) of the slice
GeckoVolumeIndex(i, np, limit) == i

\* prices.slice(-limit).map((p, i) => ({..., volume: volumes[i] ? volumes[i][1] : 0}))
GeckoCandles(prices, volumes, limit) ==
    LET kept == SliceLast(prices, limit)
    IN  [i \in 1..Len(kept) |->
            LET p == kept[i]
                vi == GeckoVolumeIndex(i, Len(prices), limit)
            IN  [timestamp |-> p[1], open |-> p[2],
                 high |-> MulDiv(p[2], 1005, 1000), low |-> MulDiv(p[2], 995, 1000),
                 close |-> p[2],
                 volume |-> IF vi <= Len(volumes) THEN volumes[vi][2] ELSE 0]]

fetchFromCoinGecko(resp, limit) ==
    CASE resp.kind \in {"network_error", "timeout"} -> Thrown("fetch failed")
      [] resp.kind = "http_error" -> Thrown("CoinGecko status")
      [] resp.kind = "bad_json" -> Thrown("SyntaxError")
      [] resp.kind = "null_body" -> Thrown("TypeError: data is null")
      [] resp.kind = "no_prices" -> Returned(<< >>)
      [] resp.kind = "prices_not_array" -> Thrown("TypeError: prices.slice is not a function")
      [] resp.kind = "null_point" ->
            IF resp.np = 0 THEN Returned(<< >>) ELSE Thrown("TypeError: p is null")
      [] OTHER -> Returned(GeckoCandles(GeckoPrices(resp.np), GeckoVolumes(resp.nv), limit))

\* ------------------------------------------------------------------------
\* Technical indicators
\* Prices are hundredths; averages of prices (sma, ema, macd, bands, atr)
\* carry AvgScale further units per hundredth; rsi carries two decimals;
\* returns, momentum, volume ratio and percentages are in 1/RatioScale.
\* Scores and thresholds are exact decimals: the last-bit rounding of binary
\* floating point (2.6 + 0.2 + 0.2 is 3.0000000000000004) is not represented,
\* so a comparison of two values equal as decimals can differ from the program.
\* ------------------------------------------------------------------------
AvgScale == 100
RsiScale == 100

\* a / b rounded to the nearest integer (b > 0)
RoundDiv(a, b) == (2 * a + b) \div (2 * b)

\* s[lo] + ... + s[hi]
RECURSIVE SumRange(_, _, _)
SumRange(s, lo, hi) ==
    IF lo > hi THEN 0
    ELSE IF lo = hi THEN s[lo]
    ELSE LET mid == (lo + hi) \div 2
         IN  SumRange(s, lo, mid) + SumRange(s, mid + 1, hi)

\* Math.sqrt, rounded down, by bisection on lo..hi
RECURSIVE SqrtSearch(_, _, _)
SqrtSearch(n, lo, hi) ==
    IF lo >= hi THEN lo
    ELSE LET mid == (lo + hi + 1) \div 2
         IN  IF mid * mid <= n THEN SqrtSearch(n, mid, hi) ELSE SqrtSearch(n, lo, mid - 1)

Sqrt(n) == SqrtSearch(n, 0, 46340)

\* prices.slice(-period).reduce((s, v) => s + v, 0) / period
sma(prices, period) ==
    IF Len(prices) < period THEN Null
    ELSE RoundDiv(SumRange(prices, Len(prices) - period + 1, Len(prices)) * AvgScale, period)

\* e = prices[i] * k + e * (1 - k) with k = 2 / (period + 1)
EmaStep(price, e, period) == RoundDiv(2 * price + (period - 1) * e, period + 1)

\* the recurrence over values[lo..hi] from e
RECURSIVE EmaFold(_, _, _, _, _, _)
EmaFold(values, scale, lo, hi, e, period) ==
    IF lo > hi THEN e
    ELSE IF lo = hi THEN EmaStep(values[lo] * scale, e, period)
    ELSE LET mid == (lo + hi) \div 2
             a == EmaFold(values, scale, lo, mid, e, period)
         IN  IF a = a   \* evaluates the first half before the second starts
             THEN EmaFold(values, scale, mid + 1, hi, a, period)
             ELSE a

ema(prices, period) ==
    IF Len(prices) < period THEN Null
    ELSE EmaFold(prices, AvgScale, period + 1, Len(prices),
                 RoundDiv(SumRange(prices, 1, period) * AvgScale, period), period)

\* 100 - 100 / (1 + avgGain / avgLoss), i.e. 100 * gain / (gain + loss)
RECURSIVE GainLoss(_, _, _)
GainLoss(prices, lo, hi) ==
    IF lo > hi THEN [gain |-> 0, loss |-> 0]
    ELSE IF lo = hi
    THEN LET d == prices[lo] - prices[lo - 1]
         IN  IF d > 0 THEN [gain |-> d, loss |-> 0] ELSE [gain |-> 0, loss |-> -d]
    ELSE LET mid == (lo + hi) \div 2
             a == GainLoss(prices, lo, mid)
             b == GainLoss(prices, mid + 1, hi)
         IN  [gain |-> a.gain + b.gain, loss |-> a.loss + b.loss]

\* the formula without the zero-loss case: 0 / 0 is NaN
rsi_ZeroLossDivides(prices, period) ==
    IF Len(prices) < period + 1 THEN Null
    ELSE LET gl == GainLoss(prices, Len(prices) - period + 1, Len(prices))
         IN  IF gl.loss = 0 /\ gl.gain = 0 THEN NaN
             ELSE MulDiv(gl.gain, 100 * RsiScale, gl.gain + gl.loss)

rsi(prices, period) ==
    IF Len(prices) < period + 1 THEN Null
    ELSE LET gl == GainLoss(prices, Len(prices) - period + 1, Len(prices))
         IN  IF gl.loss = 0 THEN 100 * RsiScale
             ELSE MulDiv(gl.gain, 100 * RsiScale, gl.gain + gl.loss)

NullMacd == [line |-> Null, signal |-> Null, histogram |-> Null]

\* the loop over i = 26 .. prices.length - 1 that fills macdHistory
RECURSIVE MacdHistory(_, _, _, _, _)
MacdHistory(prices, lo, hi, e12, e26) ==
    IF lo > hi THEN [e12 |-> e12, e26 |-> e26, history |-> << >>]
    ELSE IF lo = hi
    THEN LET n12 == EmaStep(prices[lo] * AvgScale, e12, 12)
             n26 == EmaStep(prices[lo] * AvgScale, e26, 26)
         IN  [e12 |-> n12, e26 |-> n26, history |-> <<n12 - n26>>]
    ELSE LET mid == (lo + hi) \div 2
             a == MacdHistory(prices, lo, mid, e12, e26)
             st == <<a.e12, a.e26>>
         IN  IF st = st   \* evaluates the first half before the second starts
             THEN LET b == MacdHistory(prices, mid + 1, hi, st[1], st[2])
                  IN  [e12 |-> b.e12, e26 |-> b.e26, history |-> a.history \o b.history]
             ELSE a

\* a signal line computed from however few MACD values there are
MacdSignal_AnyHistory(macdHistory) ==
    IF Len(macdHistory) >= 1
    THEN RoundDiv(SumRange(macdHistory, 1, Min2(9, Len(macdHistory))), 9)
    ELSE Null

\* the 9-period EMA of macdHistory, or null
MacdSignal(macdHistory) ==
    IF Len(macdHistory) >= 9
    THEN EmaFold(macdHistory, 1, 10, Len(macdHistory),
                 RoundDiv(SumRange(macdHistory, 1, 9), 9), 9)
    ELSE Null

macd(prices) ==
    IF Len(prices) < 26 THEN NullMacd
    ELSE LET ema12 == ema(prices, 12)
             ema26 == ema(prices, 26)
             line == ema12 - ema26
             e12 == EmaFold(prices, AvgScale, 13, 26,
                            RoundDiv(SumRange(prices, 1, 12) * AvgScale, 12), 12)
             e26 == RoundDiv(SumRange(prices, 1, 26) * AvgScale, 26)
             macdHistory == MacdHistory(prices, 27, Len(prices), e12, e26).history
             signalLine == MacdSignal(macdHistory)
         IN  IF IsNull(ema12) \/ IsNull(ema26) THEN NullMacd
             ELSE [line |-> line, signal |-> signalLine,
                   histogram |-> IF ~IsNull(signalLine) THEN line - signalLine ELSE Null]

\* sum of (v - mid)^2 over values[lo..hi], v and mid in the unit of mid/scale
RECURSIVE SquaresRange(_, _, _, _, _)
SquaresRange(values, scale, mid, lo, hi) ==
    IF lo > hi THEN 0
    ELSE IF lo = hi
    THEN LET d == RoundDiv(values[lo] * scale - mid, scale) IN d * d
    ELSE LET m == (lo + hi) \div 2
         IN  SquaresRange(values, scale, mid, lo, m) + SquaresRange(values, scale, mid, m + 1, hi)

NullBands == [upper |-> Null, middle |-> Null, lower |-> Null]

bollingerBands(prices, period, stdDevs) ==
    IF Len(prices) < period THEN NullBands
    ELSE LET mid == sma(prices, period)
             variance == SquaresRange(prices, AvgScale, mid, Len(prices) - period + 1,
                                      Len(prices)) \div period
             sd == Sqrt(variance) * AvgScale
         IN  [upper |-> mid + stdDevs * sd, middle |-> mid, lower |-> mid - stdDevs * sd]

\* values.reduce((s, v) => s + v, 0) / values.length, or null; the mean
\* carries AvgScale units per unit of the values
avg(values) ==
    IF Len(values) = 0 THEN Null
    ELSE RoundDiv(SumRange(values, 1, Len(values)) * AvgScale, Len(values))

\* population standard deviation in the unit of the values, or null
stdDev(values) ==
    IF Len(values) = 0 THEN Null
    ELSE LET mean == avg(values)
         IN  Sqrt(SquaresRange(values, AvgScale, mean, 1, Len(values)) \div Len(values))

\* (num / den) in 1/RatioScale, for |num| small enough that the product fits
Ratio(num, den) == (num * RatioScale) \div den

\* (prices[last] - base) / base
momentum(prices, period) ==
    IF Len(prices) <= period THEN Null
    ELSE LET base == prices[Len(prices) - period]
         IN  IF base = 0 THEN Null
             ELSE Ratio(prices[Len(prices)] - base, base)

\* Math.max(high - low, |high - prevClose|, |low - prevClose|)
TrueRange(candles, i) ==
    Max2(candles[i].high - candles[i].low,
         Max2(Abs(candles[i].high - candles[i - 1].close),
              Abs(candles[i].low - candles[i - 1].close)))

atr(candles, period) ==
    IF Len(candles) < period + 1 THEN Null
    ELSE LET trs == [k \in 1..period |-> TrueRange(candles, Len(candles) - period + k)]
         IN  avg(trs)

\* the value of a missing array element or property
Undefined == -2000000002

analyzeIndicators(ohlcv) ==
    LET n == Len(ohlcv)
        closes == [i \in 1..n |-> ohlcv[i].close]
        returns == [i \in 1..Max2(n - 1, 0) |->
                       IF closes[i] # 0 THEN Ratio(closes[i + 1] - closes[i], closes[i]) ELSE 0]
        recentVols == [i \in 1..Min2(n, 20) |-> ohlcv[n - Min2(n, 20) + i].volume]
        latestVolume == IF n = 0 THEN 0 ELSE ohlcv[n].volume
        avgVolume == IF IsNull(avg(recentVols)) THEN 0 ELSE avg(recentVols)
    IN  [currentPrice |-> IF n = 0 THEN Undefined ELSE closes[n],
         rsi |-> rsi(closes, 14),
         macd |-> macd(closes),
         bollingerBands |-> bollingerBands(closes, 20, 2),
         ema20 |-> ema(closes, 20),
         ema50 |-> ema(closes, 50),
         sma200 |-> IF n >= 200 THEN sma(closes, 200) ELSE Null,
         atr14 |-> atr(ohlcv, 14),
         momentum3 |-> momentum(closes, 3),
         momentum10 |-> momentum(closes, 10),
         volatility20 |-> stdDev(SliceLast(returns, 20)),
         latestVolume |-> latestVolume,
         avgVolume |-> avgVolume,
         volumeRatio |-> IF avgVolume > 0
                         THEN MulDiv(latestVolume * AvgScale, RatioScale, avgVolume)
                         ELSE Null]

\* ------------------------------------------------------------------------
\* Candle sequences handed to generateSignal: n candles starting at base that
\* drift by lead per candle, then by one cent over rest candles, then by tail
\* over the last turn candles, alternate by +-zig, and end on a candle of
\* volume last
\* ------------------------------------------------------------------------
StartPrice == 200 * PriceScale
Spread == 10
Turn == 3
UsualVolume == 100

CloseAt(shape, i) ==
    LET split == Max2(shape.n - Turn, 0)
        run == Max2(split - shape.rest, 0)
    IN  shape.base + shape.lead * Min2(i, run) + (Min2(i, split) - Min2(i, run))
          + shape.tail * Max2(0, i - split)
          + (IF i % 2 = 1 THEN shape.zig ELSE -shape.zig)

CandlesOf(shape) ==
    [i \in 1..shape.n |->
        LET o == IF i = 1 THEN shape.base ELSE CloseAt(shape, i - 1)
            c == CloseAt(shape, i)
        IN  [timestamp |-> i, open |-> o, high |-> Max2(o, c) + Spread,
             low |-> Min2(o, c) - Spread, close |-> c,
             volume |-> IF i = shape.n THEN shape.last ELSE UsualVolume]]

Lengths == {0, 1, 2, 3, 4, 10, 11, 14, 15, 19, 20, 21, 25, 26, 34, 35, 49, 50, 60, 199, 200}

\* 300 candles that rise from one to the next, steadily or with a slower
\* stretch before the end
LongRises ==
    [n : {300}, lead : {1, 30}, tail : {1, 3, 30}, zig : {0}, last : {50, 100, 200},
     rest : {0, 20}, base : {StartPrice}]

\* 50 candles of a coin priced like DOGE in basePrices, level at 0.25 until
\* the last three
CheapCoins ==
    [n : {50}, lead : {0}, tail : {-1, 3}, zig : {0}, last : {50, 100, 200},
     rest : {0}, base : {25}]

Shapes ==
    [n : Lengths, lead : {-30, 0, 30}, tail : {-150, 0, 150}, zig : {0, 300},
     last : {50, 100, 200}, rest : {0}, base : {StartPrice}]
      \cup LongRises \cup CheapCoins


\* ------------------------------------------------------------------------
\* State
\* ------------------------------------------------------------------------
VARIABLES
    \* one call of fetchOHLCV
    fpc,        \* where the call is: "primary", "secondary", "synthetic", "returned", "thrown"
    fargs,      \* [symbol, timeframe, limit]
    fvalue,     \* the candles the call resolved to
    fsource,    \* which source produced fvalue
    ftrace,     \* the sources attempted so far, in order, with their outcome
    \* independent invocations of generateDemoData
    demoRuns,   \* sequence of [symbol, timeframe, limit, now, candles]
    \* one request to the /api/signal handler
    hpc,        \* where the handler is
    req,        \* [method, timeframe, signalType, riskTolerance]
    safe,       \* the normalized parameters
    warnings,   \* the warnings list
    settled,    \* the three results of Promise.allSettled, the number of candles
                \* of the first, and the order in which the three settled
    ohlcv,      \* the candles the handler holds: [n, source]
    responses,  \* what was sent on res, in order
    failures,   \* the collaborator failures seen by this request (history)
    \* one call of generateSignal
    gpc,          \* where the call is
    gargs,        \* [shape, signalType, riskTolerance]; the candles are CandlesOf(shape)
    ind,          \* the IndicatorSet
    prevMacd,     \* macd of the closes without the last one
    buyScore,
    sellScore,
    buyEvidence,
    sellEvidence,
    reasons,
    regime,
    threshold,
    signal,
    confidence,
    targets,
    gresult,      \* the returned object
    before        \* buyScore, sellScore and threshold before the last step (history)

fetchVars == <<fpc, fargs, fvalue, fsource, ftrace>>
demoVars == <<demoRuns>>
handlerVars == <<hpc, req, safe, warnings, settled, ohlcv, responses, failures>>
signalVars == <<gpc, gargs, ind, prevMacd, buyScore, sellScore, buyEvidence, sellEvidence,
                reasons, regime, threshold, signal, confidence, targets, gresult, before>>

CandleFields == {"timestamp", "open", "high", "low", "close", "volume"}
IsCandleSeq(v) ==
    /\ DOMAIN v = 1..Len(v)
    /\ \A i \in 1..Len(v) : DOMAIN v[i] = CandleFields

Limits == 0..MaxLimit

\* ------------------------------------------------------------------------
\* fetchOHLCV: primary, then secondary, then the generator
\* ------------------------------------------------------------------------
\* a failed primary attempt is tried again
AfterPrimary_Retry(r) == IF r.thrown THEN "primary" ELSE "returned"

\* try { return await fetchFromBinance(...) } catch { ... }
AfterPrimary(r) == IF r.thrown THEN "secondary" ELSE "returned"

\* the failure of the secondary provider escapes
AfterSecondary_Rethrow(r) == IF r.thrown THEN "thrown" ELSE "returned"

\* try { return await fetchFromCoinGecko(...) } catch { return generateDemoData(...) }
AfterSecondary(r) == IF r.thrown THEN "synthetic" ELSE "returned"

FetchPrimary ==
    /\ fpc = "primary"
    /\ \E resp \in BinanceResponses :
          LET r == fetchFromBinance(resp)
          IN  /\ fpc' = AfterPrimary(r)
              /\ fvalue' = r.value
              /\ fsource' = IF r.thrown THEN fsource ELSE "primary"
              /\ ftrace' = Append(ftrace, [source |-> "primary", failed |-> r.thrown])
    /\ UNCHANGED <<fargs, demoVars, handlerVars, signalVars>>

FetchSecondary ==
    /\ fpc = "secondary"
    /\ \E resp \in GeckoResponses :
          LET r == fetchFromCoinGecko(resp, fargs.limit)
          IN  /\ fpc' = AfterSecondary(r)
              /\ fvalue' = r.value
              /\ fsource' = IF r.thrown THEN fsource ELSE "secondary"
              /\ ftrace' = Append(ftrace, [source |-> "secondary", failed |-> r.thrown])
    /\ UNCHANGED <<fargs, demoVars, handlerVars, signalVars>>

FetchSynthetic ==
    /\ fpc = "synthetic"
    /\ \E now \in NowValues :
          fvalue' = generateDemoData(fargs.symbol, fargs.timeframe, fargs.limit, now)
    /\ fpc' = "returned"
    /\ fsource' = "synthetic"
    /\ ftrace' = Append(ftrace, [source |-> "synthetic", failed |-> FALSE])
    /\ UNCHANGED <<fargs, demoVars, handlerVars, signalVars>>

FetchNext == FetchPrimary \/ FetchSecondary \/ FetchSynthetic

\* the whole chain as one function of what the two providers answer
fetchOHLCV(symbol, timeframe, limit, presp, gresp, now) ==
    LET p == fetchFromBinance(presp)
        g == fetchFromCoinGecko(gresp, limit)
    IN  IF AfterPrimary(p) = "returned" THEN [value |-> p.value, source |-> "primary"]
        ELSE IF AfterSecondary(g) = "returned" THEN [value |-> g.value, source |-> "secondary"]
        ELSE [value |-> generateDemoData(symbol, timeframe, limit, now),
              source |-> "synthetic"]

\* ------------------------------------------------------------------------
\* Two invocations of generateDemoData
\* ------------------------------------------------------------------------
\* number of invocations compared
MaxRuns == 2

DemoInvoke ==
    /\ Len(demoRuns) < MaxRuns
    /\ \E symbol \in Symbols, timeframe \in Timeframes, limit \in Limits, now \in NowValues :
          demoRuns' = Append(demoRuns,
              [symbol |-> symbol, timeframe |-> timeframe, limit |-> limit, now |-> now,
               candles |-> generateDemoData(symbol, timeframe, limit, now)])
    /\ UNCHANGED <<fetchVars, handlerVars, signalVars>>

DemoNext == DemoInvoke

\* ------------------------------------------------------------------------
\* The /api/signal handler
\* ------------------------------------------------------------------------
SUPPORTED_TIMEFRAMES == {"15m", "1h", "4h", "1d"}
SUPPORTED_SIGNAL_TYPES == {"scalp", "intraday", "swing"}
SUPPORTED_RISK_TOLERANCE == {"conservative", "moderate", "aggressive"}

pickAllowed(value, allowed, fallback) == IF value \in allowed THEN value ELSE fallback

\* the requests of the model
Requests ==
    [method : {"GET", "POST", "PUT"},
     timeframe : {"1d", "2w"},
     signalType : {"scalp", "intraday", "swing", "position", "yearly"},
     riskTolerance : {"aggressive", "reckless"}]

\* candles per request of the handler
HandlerLimit == 120

\* const price = closes[closes.length - 1]; ... currentPrice: +price.toFixed(2)
\* on an empty sequence price is undefined and undefined.toFixed throws
generateSignalThrows(n) == n = 0

\* dataSource of the object generateSignal returns
SignalDataSource(source) == "live"

\* how a call of fetchOHLCV made by the handler can settle: fulfilled with n
\* candles of some source (every answer of the two providers), or, for a
\* fetchOHLCV other than the one above, rejected or thrown
CandleOutcomes ==
    {[status |-> "fulfilled", n |-> Len(r.value), source |-> r.source] :
        r \in {fetchOHLCV(SymBTC, Tf4h, HandlerLimit, presp, gresp, 1000000000) :
                 presp \in BinanceResponses, gresp \in GeckoResponses}}
    \cup {[status |-> st, n |-> 0, source |-> "none"] : st \in {"rejected", "threw"}}

\* how fetchFuturesContext and fetchCatalystWatch can settle
AuxOutcomes == {"fulfilled", "rejected", "threw"}

\* what generateSignal can do on n candles
GenerateOutcomes(n) ==
    IF generateSignalThrows(n) THEN {"throw"} ELSE {"BUY", "SELL", "HOLD", "throw"}

NoCandles == [n |-> 0, source |-> "none"]

\* the three checks after pickAllowed
NormalizationWarnings(r) ==
    (IF pickAllowed(r.timeframe, SUPPORTED_TIMEFRAMES, "4h") # r.timeframe
       THEN <<"Invalid timeframe normalized to 4h">> ELSE << >>)
    \o (IF pickAllowed(r.signalType, SUPPORTED_SIGNAL_TYPES, "swing") # r.signalType
       THEN <<"Invalid signalType normalized to swing">> ELSE << >>)
    \o (IF pickAllowed(r.riskTolerance, SUPPORTED_RISK_TOLERANCE, "moderate") # r.riskTolerance
       THEN <<"Invalid riskTolerance normalized to moderate">> ELSE << >>)

\* the catalyst warning is forgotten
ContextWarnings_NoCatalyst(fo, co) ==
    IF fo # "fulfilled" THEN <<"Futures context unavailable, served neutral values">> ELSE << >>

\* the warnings for the two auxiliary fetches
ContextWarnings(fo, co) ==
    (IF fo # "fulfilled" THEN <<"Futures context unavailable, served neutral values">> ELSE << >>)
    \o (IF co # "fulfilled" THEN <<"Catalyst watch unavailable, served neutral values">> ELSE << >>)

\* result.degraded = warnings.length > 0
Degraded(w) == Len(w) > 0

ErrorBody ==
    [kind |-> "error", signal |-> "none", dataSource |-> "none", degraded |-> FALSE,
     warnings |-> << >>, timeframe |-> "none", signalType |-> "none",
     riskTolerance |-> "none", candlesFrom |-> "none"]

\* targets[signalType] || targets.swing, as [tp1Pct, tp2Pct, slPct] in 1/RatioScale
TargetPcts(signalType) ==
    CASE signalType = "scalp" -> <<RatioScale \div 100, (2 * RatioScale) \div 100, (5 * RatioScale) \div 1000>>
      [] signalType = "swing" -> <<(3 * RatioScale) \div 100, (8 * RatioScale) \div 100, (15 * RatioScale) \div 1000>>
      [] signalType = "position" -> <<(10 * RatioScale) \div 100, (20 * RatioScale) \div 100, (3 * RatioScale) \div 100>>
      [] OTHER -> <<(3 * RatioScale) \div 100, (8 * RatioScale) \div 100, (15 * RatioScale) \div 1000>>

\* x !== null ? +x.toFixed(digits) : null, for x carrying `from` units per `to`
Fixed(x, from, to) ==
    IF IsNull(x) THEN Null
    ELSE IF x < 0 THEN -RoundDiv(-x * to, from)
    ELSE RoundDiv(x * to, from)

\* the payload of a computed signal: generateSignal's result for the horizon
\* handed to it (percentages in hundredths of a percent) and the fields the
\* handler sets on it
SignalBody(sig, src, w, deg, tf, st, rt) ==
    [kind |-> "signal", signal |-> sig, dataSource |-> SignalDataSource(src),
     degraded |-> deg, warnings |-> w, timeframe |-> tf, signalType |-> st,
     riskTolerance |-> rt, candlesFrom |-> src,
     takeProfit1Pct |-> Fixed((IF sig = "SELL" THEN -1 ELSE 1) * TargetPcts(st)[1],
                              RatioScale, 10000),
     takeProfit2Pct |-> Fixed((IF sig = "SELL" THEN -1 ELSE 1) * TargetPcts(st)[2],
                              RatioScale, 10000)]

\* the literal payload of the innermost catch
StaticBody ==
    [kind |-> "signal", signal |-> "HOLD", dataSource |-> "fallback", degraded |-> TRUE,
     warnings |-> <<"Signal endpoint degraded mode response">>, timeframe |-> "4h",
     signalType |-> "swing", riskTolerance |-> "moderate", candlesFrom |-> "none",
     takeProfit1Pct |-> Null, takeProfit2Pct |-> Null]

\* lines 40-62: method check, parameter normalization
HandlerStart ==
    /\ hpc = "start"
    /\ IF req.method \notin {"GET", "POST"}
       THEN /\ responses' = Append(responses, [status |-> 405, body |-> ErrorBody])
            /\ hpc' = "done"
            /\ UNCHANGED <<safe, warnings>>
       ELSE /\ safe' = [timeframe |-> pickAllowed(req.timeframe, SUPPORTED_TIMEFRAMES, "4h"),
                        signalType |-> pickAllowed(req.signalType, SUPPORTED_SIGNAL_TYPES, "swing"),
                        riskTolerance |-> pickAllowed(req.riskTolerance, SUPPORTED_RISK_TOLERANCE, "moderate")]
            /\ warnings' = NormalizationWarnings(req)
            /\ hpc' = "settle"
            /\ UNCHANGED responses
    /\ UNCHANGED <<req, settled, ohlcv, failures, fetchVars, demoVars, signalVars>>

\* lines 65-74: the three fetches were started together; one that is still
\* pending settles, in any order
HandlerArrive ==
    /\ hpc = "settle"
    /\ \E p \in {"ohlcv", "futures", "catalyst"} :
          /\ \A k \in 1..Len(settled.order) : settled.order[k] # p
          /\ \/ /\ p = "ohlcv"
                /\ \E o \in CandleOutcomes :
                      /\ settled' = [settled EXCEPT !.ohlcv = o.status, !.rows = o.n,
                                                    !.order = Append(@, p)]
                      /\ ohlcv' = [n |-> o.n, source |-> o.source]
                      /\ failures' = (failures \/ o.status # "fulfilled" \/ o.n = 0)
             \/ /\ p # "ohlcv"
                /\ \E ao \in AuxOutcomes :
                      /\ settled' = [settled EXCEPT ![p] = ao, !.order = Append(@, p)]
                      /\ failures' = (failures \/ ao # "fulfilled")
                /\ UNCHANGED ohlcv
    /\ UNCHANGED <<hpc, req, safe, warnings, responses, fetchVars, demoVars, signalVars>>

\* lines 64, 75-81: the await resumes once all three have settled; empty
\* candles push a warning
HandlerSettle ==
    /\ hpc = "settle"
    /\ Len(settled.order) = 3
    /\ IF settled.ohlcv = "threw" \/ settled.futures = "threw" \/ settled.catalyst = "threw"
       THEN hpc' = "catch" /\ UNCHANGED <<ohlcv, warnings>>
       ELSE IF settled.ohlcv = "fulfilled" /\ ohlcv.n > 0
       THEN hpc' = "context" /\ UNCHANGED <<ohlcv, warnings>>
       ELSE /\ ohlcv' = NoCandles
            /\ warnings' = Append(warnings, "Primary OHLCV unavailable, switched to demo fallback")
            /\ hpc' = "refetch1"
    /\ UNCHANGED <<req, safe, settled, responses, failures, fetchVars, demoVars, signalVars>>

\* line 80: ohlcv = await fetchOHLCV('BTCUSDT', safeTimeframe, 120, ...)
HandlerRefetch1 ==
    /\ hpc = "refetch1"
    /\ \E o \in CandleOutcomes :
          /\ failures' = (failures \/ o.status # "fulfilled" \/ o.n = 0)
          /\ IF o.status # "fulfilled"
             THEN hpc' = "catch" /\ UNCHANGED ohlcv
             ELSE ohlcv' = [n |-> o.n, source |-> o.source] /\ hpc' = "context"
    /\ UNCHANGED <<req, safe, warnings, settled, responses, fetchVars, demoVars, signalVars>>

\* the two context warnings are pushed in the order in which the fetches settled
HandlerContext_ArrivalOrder ==
    /\ hpc = "context"
    /\ warnings' = warnings
                   \o (IF \E j, k \in 1..Len(settled.order) :
                             j < k /\ settled.order[j] = "catalyst" /\ settled.order[k] = "futures"
                       THEN ContextWarnings(settled.catalyst, "fulfilled")
                            \o ContextWarnings(settled.futures, "fulfilled")
                       ELSE ContextWarnings(settled.futures, settled.catalyst))
                   \o (IF ohlcv.n = 0
                       THEN <<"OHLCV fallback still unavailable, generated last-resort demo">>
                       ELSE << >>)
    /\ hpc' = IF ohlcv.n = 0 THEN "refetch2" ELSE "generate"
    /\ UNCHANGED <<req, safe, settled, ohlcv, responses, failures, fetchVars, demoVars, signalVars>>

\* lines 83-98: neutral futures / catalyst values and their warnings
HandlerContext ==
    /\ hpc = "context"
    /\ warnings' = warnings \o ContextWarnings(settled.futures, settled.catalyst)
                   \o (IF ohlcv.n = 0
                       THEN <<"OHLCV fallback still unavailable, generated last-resort demo">>
                       ELSE << >>)
    /\ hpc' = IF ohlcv.n = 0 THEN "refetch2" ELSE "generate"
    /\ UNCHANGED <<req, safe, settled, ohlcv, responses, failures, fetchVars, demoVars, signalVars>>

\* line 99: ohlcv = await fetchOHLCV('BTCUSDT', '4h', 120, ...)
HandlerRefetch2 ==
    /\ hpc = "refetch2"
    /\ \E o \in CandleOutcomes :
          /\ failures' = (failures \/ o.status # "fulfilled" \/ o.n = 0)
          /\ IF o.status # "fulfilled"
             THEN hpc' = "catch" /\ UNCHANGED ohlcv
             ELSE ohlcv' = [n |-> o.n, source |-> o.source] /\ hpc' = "generate"
    /\ UNCHANGED <<req, safe, warnings, settled, responses, fetchVars, demoVars, signalVars>>

\* lines 102-117: generateSignal, decoration of the result, the 200 response
HandlerGenerate ==
    /\ hpc = "generate"
    /\ \E g \in GenerateOutcomes(ohlcv.n) :
          IF g = "throw"
          THEN hpc' = "catch" /\ failures' = TRUE /\ UNCHANGED responses
          ELSE /\ responses' = Append(responses,
                      [status |-> 200,
                       body |-> SignalBody(g, ohlcv.source, warnings, Degraded(warnings),
                                           safe.timeframe, safe.signalType, safe.riskTolerance)])
               /\ hpc' = "done"
               /\ UNCHANGED failures
    /\ UNCHANGED <<req, safe, warnings, settled, ohlcv, fetchVars, demoVars, signalVars>>

\* lines 118-134: the fallback payload from BTCUSDT 4h candles
HandlerCatch ==
    /\ hpc = "catch"
    /\ \E o \in CandleOutcomes :
          \E g \in GenerateOutcomes(o.n) :
             IF o.status # "fulfilled" \/ g = "throw"
             THEN hpc' = "catch2" /\ UNCHANGED <<responses, ohlcv>>
             ELSE /\ ohlcv' = [n |-> o.n, source |-> o.source]
                  /\ responses' = Append(responses,
                        [status |-> 200,
                         body |-> SignalBody(g, o.source,
                                    <<"Signal generation failed, fallback payload returned">>,
                                    TRUE, "4h", "swing", "moderate")])
                  /\ hpc' = "done"
    /\ UNCHANGED <<req, safe, warnings, settled, failures, fetchVars, demoVars, signalVars>>

\* lines 135-181: the static degraded payload
HandlerCatch2 ==
    /\ hpc = "catch2"
    /\ responses' = Append(responses, [status |-> 200, body |-> StaticBody])
    /\ hpc' = "done"
    /\ UNCHANGED <<req, safe, warnings, settled, ohlcv, failures, fetchVars, demoVars, signalVars>>

HandlerNext ==
    \/ HandlerStart
    \/ HandlerArrive
    \/ HandlerSettle
    \/ HandlerRefetch1
    \/ HandlerContext
    \/ HandlerRefetch2
    \/ HandlerGenerate
    \/ HandlerCatch
    \/ HandlerCatch2

\* ------------------------------------------------------------------------
\* generateSignal(ohlcv, signalType, riskTolerance), one action per statement
\* group; scores, threshold and confidence are in 1/ScoreScale
\* ------------------------------------------------------------------------
SignalTypes == {"scalp", "swing", "position", "yearly"}
RiskTolerances == {"conservative", "moderate", "aggressive", "reckless"}

\* x tenths of a point
Points(x) == x * (ScoreScale \div 10)

\* a quantity in average units over a price, in 1/RatioScale
PerPrice(x, price) == MulDiv(x, RatioScale \div AvgScale, price)

addBuy(points, reason) == [side |-> "buy", points |-> points, reason |-> reason]
addSell(points, reason) == [side |-> "sell", points |-> points, reason |-> reason]
push(reason) == [side |-> "none", points |-> 0, reason |-> reason]
Skip == [side |-> "none", points |-> 0, reason |-> ""]

Apply_Unshift(rule) ==
    /\ buyScore' = IF rule.side = "buy" THEN buyScore + rule.points ELSE buyScore
    /\ buyEvidence' = IF rule.side = "buy" THEN buyEvidence + 1 ELSE buyEvidence
    /\ sellScore' = IF rule.side = "sell" THEN sellScore + rule.points ELSE sellScore
    /\ sellEvidence' = IF rule.side = "sell" THEN sellEvidence + 1 ELSE sellEvidence
    /\ reasons' = IF rule.reason = "" THEN reasons ELSE <<rule.reason>> \o reasons

\* what a rule's outcome does to the scores, the evidence counts and reasons
Apply(rule) ==
    /\ buyScore' = IF rule.side = "buy" THEN buyScore + rule.points ELSE buyScore
    /\ buyEvidence' = IF rule.side = "buy" THEN buyEvidence + 1 ELSE buyEvidence
    /\ sellScore' = IF rule.side = "sell" THEN sellScore + rule.points ELSE sellScore
    /\ sellEvidence' = IF rule.side = "sell" THEN sellEvidence + 1 ELSE sellEvidence
    /\ reasons' = IF rule.reason = "" THEN reasons ELSE Append(reasons, rule.reason)

Remember == before' = [buyScore |-> buyScore, sellScore |-> sellScore, threshold |-> threshold]

CandleCount == gargs.shape.n

\* macd(closes.slice(0, -1)) when there are more than 30 closes
PrevMacdOf(candles) ==
    LET n == Len(candles)
        closes == [i \in 1..n |-> candles[i].close]
    IN  IF n > 30 THEN macd(SubSeq(closes, 1, n - 1)) ELSE NullMacd

GenAnalyze ==
    /\ gpc = "call"
    /\ \E shape \in Shapes :
          /\ ind' = analyzeIndicators(CandlesOf(shape))
          /\ prevMacd' = PrevMacdOf(CandlesOf(shape))
          /\ \E signalType \in SignalTypes, riskTolerance \in RiskTolerances :
                gargs' = [shape |-> shape, signalType |-> signalType,
                          riskTolerance |-> riskTolerance]
    /\ buyScore' = 0 /\ sellScore' = 0 /\ buyEvidence' = 0 /\ sellEvidence' = 0
    /\ reasons' = << >>
    /\ gpc' = "regime"
    /\ Remember
    /\ UNCHANGED <<regime, threshold, signal, confidence, targets, gresult>>
    /\ UNCHANGED <<fetchVars, demoVars, handlerVars>>

trendBias(i) ==
    IF ~IsNull(i.ema20) /\ ~IsNull(i.ema50)
    THEN PerPrice(i.ema20 - i.ema50, i.currentPrice)
    ELSE 0

RegimeOf_AnyBias(i) ==
    IF trendBias(i) > 0 THEN "uptrend"
    ELSE IF trendBias(i) < 0 THEN "downtrend"
    ELSE "range"

RegimeOf(i) ==
    IF Abs(trendBias(i)) >= (12 * RatioScale) \div 1000
    THEN (IF trendBias(i) > 0 THEN "uptrend" ELSE "downtrend")
    ELSE "range"

GenRegime ==
    /\ gpc = "regime"
    /\ regime' = RegimeOf(ind)
    /\ reasons' = Append(reasons, IF RegimeOf(ind) = "range"
                                  THEN "Market regime: ranging"
                                  ELSE "Market regime: trend")
    /\ gpc' = "rsi"
    /\ Remember
    /\ UNCHANGED <<gargs, ind, prevMacd, buyScore, sellScore, buyEvidence, sellEvidence,
                   threshold, signal, confidence, targets, gresult>>
    /\ UNCHANGED <<fetchVars, demoVars, handlerVars>>

RsiRule(i, reg) ==
    IF IsNull(i.rsi) THEN Skip
    ELSE IF reg = "uptrend"
    THEN (IF i.rsi < 38 * RsiScale THEN addBuy(Points(16), "RSI pullback in uptrend")
          ELSE IF i.rsi > 78 * RsiScale THEN addSell(Points(12), "RSI extended in uptrend")
          ELSE push("RSI healthy for uptrend continuation"))
    ELSE IF reg = "downtrend"
    THEN (IF i.rsi > 62 * RsiScale THEN addSell(Points(16), "RSI bounce in downtrend")
          ELSE IF i.rsi < 22 * RsiScale THEN addBuy(Points(11), "RSI deeply oversold")
          ELSE push("RSI neutral within downtrend"))
    ELSE (IF i.rsi < 30 * RsiScale THEN addBuy(Points(18), "RSI oversold in range")
          ELSE IF i.rsi > 70 * RsiScale THEN addSell(Points(18), "RSI overbought in range")
          ELSE push("RSI neutral in ranging market"))

GenRsi ==
    /\ gpc = "rsi"
    /\ Apply(RsiRule(ind, regime))
    /\ gpc' = "macd"
    /\ Remember
    /\ UNCHANGED <<gargs, ind, prevMacd, regime, threshold, signal, confidence, targets, gresult>>
    /\ UNCHANGED <<fetchVars, demoVars, handlerVars>>

MacdRule(macdVal, prev) ==
    LET histNow == macdVal.histogram
        histPrev == prev.histogram
    IN  IF IsNull(macdVal.histogram) THEN Skip
        ELSE IF histNow > 0 /\ macdVal.line > macdVal.signal
        THEN (IF ~IsNull(histPrev) /\ histPrev <= 0
              THEN addBuy(Points(19), "MACD fresh bullish crossover")
              ELSE IF ~IsNull(histPrev) /\ histNow > histPrev
              THEN addBuy(Points(14), "MACD bullish momentum is strengthening")
              ELSE addBuy(Points(11), "MACD remains bullish"))
        ELSE IF histNow < 0 /\ macdVal.line < macdVal.signal
        THEN (IF ~IsNull(histPrev) /\ histPrev >= 0
              THEN addSell(Points(19), "MACD fresh bearish crossover")
              ELSE IF ~IsNull(histPrev) /\ histNow < histPrev
              THEN addSell(Points(14), "MACD bearish momentum is strengthening")
              ELSE addSell(Points(11), "MACD remains bearish"))
        ELSE push("MACD near equilibrium")

GenMacd ==
    /\ gpc = "macd"
    /\ Apply(MacdRule(ind.macd, prevMacd))
    /\ gpc' = "bollinger"
    /\ Remember
    /\ UNCHANGED <<gargs, ind, prevMacd, regime, threshold, signal, confidence, targets, gresult>>
    /\ UNCHANGED <<fetchVars, demoVars, handlerVars>>

HasBands(bb) == ~IsNull(bb.lower) /\ ~IsNull(bb.middle) /\ ~IsNull(bb.upper)

BollingerRule(i, reg) ==
    IF ~HasBands(i.bollingerBands) THEN Skip
    ELSE IF i.currentPrice * AvgScale <= i.bollingerBands.lower
    THEN addBuy(IF reg = "downtrend" THEN Points(8) ELSE Points(14),
                "Price touched lower Bollinger Band")
    ELSE IF i.currentPrice * AvgScale >= i.bollingerBands.upper
    THEN addSell(IF reg = "uptrend" THEN Points(8) ELSE Points(14),
                 "Price touched upper Bollinger Band")
    ELSE Skip

GenBollinger ==
    /\ gpc = "bollinger"
    /\ Apply(BollingerRule(ind, regime))
    /\ gpc' = "bandwidth"
    /\ Remember
    /\ UNCHANGED <<gargs, ind, prevMacd, regime, threshold, signal, confidence, targets, gresult>>
    /\ UNCHANGED <<fetchVars, demoVars, handlerVars>>

bandWidth(bb) == MulDiv(bb.upper - bb.lower, RatioScale \div AvgScale, RoundDiv(bb.middle, AvgScale))

GenBandwidth ==
    /\ gpc = "bandwidth"
    /\ IF HasBands(ind.bollingerBands)
          /\ bandWidth(ind.bollingerBands) < (4 * RatioScale) \div 100
       THEN /\ reasons' = Append(reasons, "Bollinger bandwidth compressed")
            /\ buyScore' = (buyScore * 95) \div 100
            /\ sellScore' = (sellScore * 95) \div 100
       ELSE UNCHANGED <<reasons, buyScore, sellScore>>
    /\ gpc' = "ema"
    /\ Remember
    /\ UNCHANGED <<gargs, ind, prevMacd, buyEvidence, sellEvidence, regime, threshold, signal,
                   confidence, targets, gresult>>
    /\ UNCHANGED <<fetchVars, demoVars, handlerVars>>

\* the compression penalty reaches the weight of the EMA structure
EmaRule_Discounted(i) ==
    LET points == IF HasBands(i.bollingerBands)
                     /\ bandWidth(i.bollingerBands) < (4 * RatioScale) \div 100
                  THEN (Points(15) * 95) \div 100 ELSE Points(15)
    IN  IF IsNull(i.ema20) \/ IsNull(i.ema50) THEN Skip
        ELSE IF i.currentPrice * AvgScale > i.ema20 /\ i.ema20 > i.ema50
        THEN addBuy(points, "Price above EMA20 > EMA50")
        ELSE IF i.currentPrice * AvgScale < i.ema20 /\ i.ema20 < i.ema50
        THEN addSell(points, "Price below EMA20 < EMA50")
        ELSE push("EMA structure mixed")

\* lines 335-339
EmaRule(i) ==
    IF IsNull(i.ema20) \/ IsNull(i.ema50) THEN Skip
    ELSE IF i.currentPrice * AvgScale > i.ema20 /\ i.ema20 > i.ema50
    THEN addBuy(Points(15), "Price above EMA20 > EMA50")
    ELSE IF i.currentPrice * AvgScale < i.ema20 /\ i.ema20 < i.ema50
    THEN addSell(Points(15), "Price below EMA20 < EMA50")
    ELSE push("EMA structure mixed")

GenEma ==
    /\ gpc = "ema"
    /\ Apply(EmaRule(ind))
    /\ gpc' = "sma200"
    /\ Remember
    /\ UNCHANGED <<gargs, ind, prevMacd, regime, threshold, signal, confidence, targets, gresult>>
    /\ UNCHANGED <<fetchVars, demoVars, handlerVars>>

\* the comparison without the null test: null compares as 0
Sma200Rule_NullAsZero(i) ==
    IF i.currentPrice # Undefined
          /\ i.currentPrice * AvgScale > (IF IsNull(i.sma200) THEN 0 ELSE i.sma200)
    THEN addBuy(Points(7), "Price above SMA200")
    ELSE addSell(Points(7), "Price below SMA200")

Sma200Rule(i) ==
    IF IsNull(i.sma200) THEN Skip
    ELSE IF i.currentPrice * AvgScale > i.sma200
    THEN addBuy(Points(7), "Price above SMA200")
    ELSE addSell(Points(7), "Price below SMA200")

GenSma200 ==
    /\ gpc = "sma200"
    /\ Apply(Sma200Rule(ind))
    /\ gpc' = "momentum"
    /\ Remember
    /\ UNCHANGED <<gargs, ind, prevMacd, regime, threshold, signal, confidence, targets, gresult>>
    /\ UNCHANGED <<fetchVars, demoVars, handlerVars>>

MomentumRule(i) ==
    IF IsNull(i.momentum3) \/ IsNull(i.momentum10) THEN Skip
    ELSE IF i.momentum3 > 0 /\ i.momentum10 > 0
    THEN addBuy(Points(11), "Short and medium-term momentum aligned upward")
    ELSE IF i.momentum3 < 0 /\ i.momentum10 < 0
    THEN addSell(Points(11), "Short and medium-term momentum aligned downward")
    ELSE push("Momentum mixed across time windows")

\* the momentum weight is added without counting it as evidence
GenMomentum_Uncounted ==
    /\ gpc = "momentum"
    /\ LET rule == MomentumRule(ind)
       IN  /\ buyScore' = IF rule.side = "buy" THEN buyScore + rule.points ELSE buyScore
           /\ sellScore' = IF rule.side = "sell" THEN sellScore + rule.points ELSE sellScore
           /\ reasons' = IF rule.reason = "" THEN reasons ELSE Append(reasons, rule.reason)
    /\ UNCHANGED <<buyEvidence, sellEvidence>>
    /\ gpc' = "volume"
    /\ Remember
    /\ UNCHANGED <<gargs, ind, prevMacd, regime, threshold, signal, confidence, targets, gresult>>
    /\ UNCHANGED <<fetchVars, demoVars, handlerVars>>

\* lines 345-350
GenMomentum ==
    /\ gpc = "momentum"
    /\ Apply(MomentumRule(ind))
    /\ gpc' = "volume"
    /\ Remember
    /\ UNCHANGED <<gargs, ind, prevMacd, regime, threshold, signal, confidence, targets, gresult>>
    /\ UNCHANGED <<fetchVars, demoVars, handlerVars>>

\* a spike with level scores goes to the sell side
GenVolume_TieToSell ==
    /\ gpc = "volume"
    /\ IF IsNull(ind.volumeRatio) THEN UNCHANGED <<reasons, buyScore, sellScore>>
       ELSE IF ind.volumeRatio > (16 * RatioScale) \div 10
       THEN /\ reasons' = Append(reasons, "Volume spike")
            /\ buyScore' = IF buyScore > sellScore THEN buyScore + Points(6) ELSE buyScore
            /\ sellScore' = IF ~(buyScore > sellScore) THEN sellScore + Points(6) ELSE sellScore
       ELSE IF ind.volumeRatio < (75 * RatioScale) \div 100
       THEN /\ reasons' = Append(reasons, "Volume below average")
            /\ buyScore' = (buyScore * 93) \div 100
            /\ sellScore' = (sellScore * 93) \div 100
       ELSE UNCHANGED <<reasons, buyScore, sellScore>>
    /\ gpc' = "contradiction"
    /\ Remember
    /\ UNCHANGED <<gargs, ind, prevMacd, buyEvidence, sellEvidence, regime, threshold, signal,
                   confidence, targets, gresult>>
    /\ UNCHANGED <<fetchVars, demoVars, handlerVars>>

\* lines 352-363
GenVolume ==
    /\ gpc = "volume"
    /\ IF IsNull(ind.volumeRatio) THEN UNCHANGED <<reasons, buyScore, sellScore>>
       ELSE IF ind.volumeRatio > (16 * RatioScale) \div 10
       THEN /\ reasons' = Append(reasons, "Volume spike")
            /\ buyScore' = IF buyScore > sellScore THEN buyScore + Points(6) ELSE buyScore
            /\ sellScore' = IF ~(buyScore > sellScore) /\ sellScore > buyScore
                            THEN sellScore + Points(6) ELSE sellScore
       ELSE IF ind.volumeRatio < (75 * RatioScale) \div 100
       THEN /\ reasons' = Append(reasons, "Volume below average")
            /\ buyScore' = (buyScore * 93) \div 100
            /\ sellScore' = (sellScore * 93) \div 100
       ELSE UNCHANGED <<reasons, buyScore, sellScore>>
    /\ gpc' = "contradiction"
    /\ Remember
    /\ UNCHANGED <<gargs, ind, prevMacd, buyEvidence, sellEvidence, regime, threshold, signal,
                   confidence, targets, gresult>>
    /\ UNCHANGED <<fetchVars, demoVars, handlerVars>>

\* the penalty taken from the larger score
Overlap_OfLarger(buy, sell) == (Max2(buy, sell) * 35) \div 100

\* Math.min(buyScore, sellScore) * 0.35
Overlap(buy, sell) == (Min2(buy, sell) * 35) \div 100

\* the penalty is taken from the smaller score only
GenContradiction_LoserOnly ==
    /\ gpc = "contradiction"
    /\ IF buyScore > 0 /\ sellScore > 0
       THEN LET overlap == Overlap(buyScore, sellScore)
            IN  /\ buyScore' = IF buyScore <= sellScore THEN buyScore - overlap ELSE buyScore
                /\ sellScore' = IF sellScore <= buyScore THEN sellScore - overlap ELSE sellScore
                /\ reasons' = Append(reasons, "Bullish and bearish evidence both present")
       ELSE UNCHANGED <<reasons, buyScore, sellScore>>
    /\ gpc' = "threshold"
    /\ Remember
    /\ UNCHANGED <<gargs, ind, prevMacd, buyEvidence, sellEvidence, regime, threshold, signal,
                   confidence, targets, gresult>>
    /\ UNCHANGED <<fetchVars, demoVars, handlerVars>>

\* lines 365-371
GenContradiction ==
    /\ gpc = "contradiction"
    /\ IF buyScore > 0 /\ sellScore > 0
       THEN LET overlap == Overlap(buyScore, sellScore)
            IN  /\ buyScore' = buyScore - overlap
                /\ sellScore' = sellScore - overlap
                /\ reasons' = Append(reasons, "Bullish and bearish evidence both present")
       ELSE UNCHANGED <<reasons, buyScore, sellScore>>
    /\ gpc' = "threshold"
    /\ Remember
    /\ UNCHANGED <<gargs, ind, prevMacd, buyEvidence, sellEvidence, regime, threshold, signal,
                   confidence, targets, gresult>>
    /\ UNCHANGED <<fetchVars, demoVars, handlerVars>>

\* thresholds[riskTolerance] || 3.6
thresholds(riskTolerance) ==
    CASE riskTolerance = "conservative" -> Points(49)
      [] riskTolerance = "moderate" -> Points(36)
      [] riskTolerance = "aggressive" -> Points(26)
      [] OTHER -> Points(36)

GenThreshold ==
    /\ gpc = "threshold"
    /\ threshold' = thresholds(gargs.riskTolerance)
                      + (IF regime = "range" THEN Points(2) ELSE 0)
    /\ gpc' = "volatility"
    /\ Remember
    /\ UNCHANGED <<gargs, ind, prevMacd, buyScore, sellScore, buyEvidence, sellEvidence, reasons,
                   regime, signal, confidence, targets, gresult>>
    /\ UNCHANGED <<fetchVars, demoVars, handlerVars>>

GenVolatility ==
    /\ gpc = "volatility"
    /\ threshold' = IF ~IsNull(ind.volatility20)
                        /\ ind.volatility20 > (25 * RatioScale) \div 1000
                     THEN threshold + Points(2)
                     ELSE threshold
    /\ gpc' = "decide"
    /\ Remember
    /\ UNCHANGED <<gargs, ind, prevMacd, buyScore, sellScore, buyEvidence, sellEvidence, reasons,
                   regime, signal, confidence, targets, gresult>>
    /\ UNCHANGED <<fetchVars, demoVars, handlerVars>>

\* the decision without the edge test
Decide_NoEdge(buy, sell, th) ==
    IF buy >= th /\ buy > sell THEN "BUY"
    ELSE IF sell >= th /\ sell > buy THEN "SELL"
    ELSE "HOLD"

Decide(buy, sell, th) ==
    IF buy >= th /\ buy > sell /\ Abs(buy - sell) >= Points(9) THEN "BUY"
    ELSE IF sell >= th /\ sell > buy /\ Abs(buy - sell) >= Points(9) THEN "SELL"
    ELSE "HOLD"

GenDecide ==
    /\ gpc = "decide"
    /\ signal' = Decide(buyScore, sellScore, threshold)
    /\ reasons' = IF Decide(buyScore, sellScore, threshold) = "HOLD"
                  THEN Append(reasons, "Insufficient directional edge after confluence check")
                  ELSE reasons
    /\ gpc' = "confidence"
    /\ Remember
    /\ UNCHANGED <<gargs, ind, prevMacd, buyScore, sellScore, buyEvidence, sellEvidence,
                   regime, threshold, confidence, targets, gresult>>
    /\ UNCHANGED <<fetchVars, demoVars, handlerVars>>

\* the directional confidence counting the losing side's evidence
ConfidenceOf_LosingEvidence(sig, buy, sell, buyEv, sellEv) ==
    LET edge == Abs(buy - sell)
        dominantScore == Max2(buy, sell)
        evidenceCount == IF sig = "BUY" THEN sellEv ELSE buyEv
    IN  IF sig = "HOLD"
        THEN clamp(42 * ScoreScale + edge * 6, 40 * ScoreScale, 65 * ScoreScale)
        ELSE clamp(dominantScore * 13 + edge * 16 + evidenceCount * 2 * ScoreScale,
                   55 * ScoreScale, 95 * ScoreScale)

ConfidenceOf(sig, buy, sell, buyEv, sellEv) ==
    LET edge == Abs(buy - sell)
        dominantScore == Max2(buy, sell)
        evidenceCount == IF sig = "BUY" THEN buyEv ELSE sellEv
    IN  IF sig = "HOLD"
        THEN clamp(42 * ScoreScale + edge * 6, 40 * ScoreScale, 65 * ScoreScale)
        ELSE clamp(dominantScore * 13 + edge * 16 + evidenceCount * 2 * ScoreScale,
                   55 * ScoreScale, 95 * ScoreScale)

GenConfidence ==
    /\ gpc = "confidence"
    /\ confidence' = ConfidenceOf(signal, buyScore, sellScore, buyEvidence, sellEvidence)
    /\ gpc' = "targets"
    /\ Remember
    /\ UNCHANGED <<gargs, ind, prevMacd, buyScore, sellScore, buyEvidence, sellEvidence, reasons,
                   regime, threshold, signal, targets, gresult>>
    /\ UNCHANGED <<fetchVars, demoVars, handlerVars>>

\* the result of dividing by zero a number that is not zero
Infinity == 2000000000

\* +(price * (1 + pct)).toFixed(2)
Scaled(price, pct) ==
    IF price = Undefined THEN NaN ELSE price + RoundDiv(price * pct, RatioScale)

\* the quotient whatever the signal
RiskReward_AlsoOnHold(sig, price, tp2, sl) ==
    IF price = Undefined THEN 0
    ELSE IF price = sl THEN (IF tp2 = price THEN 0 ELSE Infinity)
    ELSE RoundDiv(Abs(tp2 - price) * 100, Abs(price - sl))

\* signal !== 'HOLD' ? +((|tp2 - price| / |price - sl|) || 0).toFixed(2) : 0,
\* in hundredths; x / 0 is Infinity and 0 / 0 is NaN, which || turns into 0
RiskReward(sig, price, tp2, sl) ==
    IF sig = "HOLD" \/ price = Undefined THEN 0
    ELSE IF price = sl THEN (IF tp2 = price THEN 0 ELSE Infinity)
    ELSE RoundDiv(Abs(tp2 - price) * 100, Abs(price - sl))

\* the stop widened by the ATR without the clamp
DynamicSlPct_Unclamped(slPct, atrPct) ==
    IF ~IsNull(atrPct) THEN Max2(slPct, (atrPct * 11) \div 10) ELSE slPct

\* clamp(atrPct !== null ? Math.max(slPct, atrPct * 1.1) : slPct, slPct * 0.85, slPct * 1.9)
DynamicSlPct(slPct, atrPct) ==
    clamp(IF ~IsNull(atrPct) THEN Max2(slPct, (atrPct * 11) \div 10) ELSE slPct,
          (slPct * 85) \div 100, (slPct * 19) \div 10)

TargetsOf(i, sig, signalType) ==
    LET price == i.currentPrice
        tp1Pct == TargetPcts(signalType)[1]
        tp2Pct == TargetPcts(signalType)[2]
        slPct == TargetPcts(signalType)[3]
        dir == IF sig = "SELL" THEN -1 ELSE 1
        atrPct == IF ~IsNull(i.atr14) THEN PerPrice(i.atr14, price) ELSE Null
        entryPadPct == clamp(IF ~IsNull(atrPct) THEN (atrPct * 3) \div 10
                                                ELSE (2 * RatioScale) \div 1000,
                             (15 * RatioScale) \div 10000, (8 * RatioScale) \div 1000)
        dynamicSlPct == DynamicSlPct(slPct, atrPct)
        tp2 == Scaled(price, dir * tp2Pct)
        sl == Scaled(price, -dir * dynamicSlPct)
    IN  [entryLow |-> Scaled(price, -entryPadPct),
         entryHigh |-> Scaled(price, entryPadPct),
         tp1 |-> Scaled(price, dir * tp1Pct),
         tp1Pct |-> dir * tp1Pct,
         tp2 |-> tp2,
         tp2Pct |-> dir * tp2Pct,
         sl |-> sl,
         slPct |-> -dir * dynamicSlPct,
         riskReward |-> RiskReward(sig, price, tp2, sl)]

GenTargets ==
    /\ gpc = "targets"
    /\ targets' = TargetsOf(ind, signal, gargs.signalType)
    /\ gpc' = "result"
    /\ Remember
    /\ UNCHANGED <<gargs, ind, prevMacd, buyScore, sellScore, buyEvidence, sellEvidence, reasons,
                   regime, threshold, signal, confidence, gresult>>
    /\ UNCHANGED <<fetchVars, demoVars, handlerVars>>

ResultOf(i, sig, conf, t, why) ==
    [signal |-> sig,
     confidence |-> RoundDiv(conf * 10, ScoreScale),
     currentPrice |-> i.currentPrice,
     entryRange |-> [low |-> t.entryLow, high |-> t.entryHigh],
     takeProfit1 |-> t.tp1,
     takeProfit1Pct |-> Fixed(t.tp1Pct, RatioScale, 10000),
     takeProfit2 |-> t.tp2,
     takeProfit2Pct |-> Fixed(t.tp2Pct, RatioScale, 10000),
     stopLoss |-> t.sl,
     stopLossPct |-> Fixed(t.slPct, RatioScale, 10000),
     riskReward |-> t.riskReward,
     reasons |-> why,
     indicators |->
        [rsi |-> Fixed(i.rsi, RsiScale, 100),
         macd |-> [line |-> Fixed(i.macd.line, PriceScale * AvgScale, 10000),
                   signal |-> Fixed(i.macd.signal, PriceScale * AvgScale, 10000),
                   histogram |-> Fixed(i.macd.histogram, PriceScale * AvgScale, 10000)],
         bollingerBands |-> [upper |-> Fixed(i.bollingerBands.upper, AvgScale, 1),
                             middle |-> Fixed(i.bollingerBands.middle, AvgScale, 1),
                             lower |-> Fixed(i.bollingerBands.lower, AvgScale, 1)],
         ema20 |-> Fixed(i.ema20, AvgScale, 1),
         ema50 |-> Fixed(i.ema50, AvgScale, 1),
         sma200 |-> Fixed(i.sma200, AvgScale, 1),
         atr14 |-> Fixed(i.atr14, PriceScale * AvgScale, 10000),
         momentum3 |-> Fixed(i.momentum3, RatioScale, 10000),
         momentum10 |-> Fixed(i.momentum10, RatioScale, 10000),
         volatility20 |-> Fixed(i.volatility20, RatioScale, 10000),
         volumeRatio |-> Fixed(i.volumeRatio, RatioScale, 100)],
     dataSource |-> "live"]

GenReturn ==
    /\ gpc = "result"
    /\ IF ind.currentPrice = Undefined   \* price.toFixed throws a TypeError
       THEN gpc' = "thrown" /\ gresult' = "TypeError"
       ELSE gpc' = "returned" /\ gresult' = ResultOf(ind, signal, confidence, targets, reasons)
    /\ Remember
    /\ UNCHANGED <<gargs, ind, prevMacd, buyScore, sellScore, buyEvidence, sellEvidence, reasons,
                   regime, threshold, signal, confidence, targets>>
    /\ UNCHANGED <<fetchVars, demoVars, handlerVars>>

SignalNext ==
    \/ GenAnalyze \/ GenRegime \/ GenRsi \/ GenMacd \/ GenBollinger \/ GenBandwidth
    \/ GenEma \/ GenSma200 \/ GenMomentum \/ GenVolume \/ GenContradiction
    \/ GenThreshold \/ GenVolatility \/ GenDecide \/ GenConfidence \/ GenTargets \/ GenReturn

\* ------------------------------------------------------------------------
\* Specifications
\* ------------------------------------------------------------------------
vars == <<fetchVars, demoVars, handlerVars, signalVars>>

\* one call of fetchOHLCV with any arguments; nothing else runs
FetchInit ==
    /\ fpc = "primary"
    /\ fargs \in [symbol : Symbols, timeframe : Timeframes, limit : Limits]
    /\ fvalue = << >>
    /\ fsource = "none"
    /\ ftrace = << >>
    /\ demoRuns = << >>
    /\ hpc = "idle" /\ req = Null /\ safe = Null /\ warnings = << >> /\ settled = Null
    /\ ohlcv = NoCandles /\ responses = << >> /\ failures = FALSE
    /\ gpc = "idle" /\ gargs = Null /\ ind = Null /\ prevMacd = Null /\ buyScore = 0
    /\ sellScore = 0 /\ buyEvidence = 0 /\ sellEvidence = 0 /\ reasons = << >>
    /\ regime = Null /\ threshold = Null /\ signal = Null /\ confidence = Null
    /\ targets = Null /\ gresult = Null /\ before = Null

SpecFetch == FetchInit /\ [][FetchNext]_vars

\* no invocation of the demo generator yet; nothing else runs
DemoInit ==
    /\ demoRuns = << >>
    /\ fpc = "idle" /\ fargs = Null /\ fvalue = << >> /\ fsource = "none" /\ ftrace = << >>
    /\ hpc = "idle" /\ req = Null /\ safe = Null /\ warnings = << >> /\ settled = Null
    /\ ohlcv = NoCandles /\ responses = << >> /\ failures = FALSE
    /\ gpc = "idle" /\ gargs = Null /\ ind = Null /\ prevMacd = Null /\ buyScore = 0
    /\ sellScore = 0 /\ buyEvidence = 0 /\ sellEvidence = 0 /\ reasons = << >>
    /\ regime = Null /\ threshold = Null /\ signal = Null /\ confidence = Null
    /\ targets = Null /\ gresult = Null /\ before = Null

SpecDemo == DemoInit /\ [][DemoNext]_vars

\* one request to the handler; nothing else runs
HandlerInit ==
    /\ hpc = "start"
    /\ req \in Requests
    /\ safe = [timeframe |-> "none", signalType |-> "none", riskTolerance |-> "none"]
    /\ warnings = << >>
    /\ settled = [ohlcv |-> "none", futures |-> "none", catalyst |-> "none", rows |-> 0,
                  order |-> << >>]
    /\ ohlcv = NoCandles
    /\ responses = << >>
    /\ failures = FALSE
    /\ fpc = "idle" /\ fargs = Null /\ fvalue = << >> /\ fsource = "none" /\ ftrace = << >>
    /\ demoRuns = << >>
    /\ gpc = "idle" /\ gargs = Null /\ ind = Null /\ prevMacd = Null /\ buyScore = 0
    /\ sellScore = 0 /\ buyEvidence = 0 /\ sellEvidence = 0 /\ reasons = << >>
    /\ regime = Null /\ threshold = Null /\ signal = Null /\ confidence = Null
    /\ targets = Null /\ gresult = Null /\ before = Null

SpecHandler == HandlerInit /\ [][HandlerNext]_vars

\* one call of generateSignal; nothing else runs
SignalInit ==
    /\ gpc = "call"
    /\ gargs = Null
    /\ ind = Null
    /\ prevMacd = Null
    /\ buyScore = 0 /\ sellScore = 0 /\ buyEvidence = 0 /\ sellEvidence = 0
    /\ reasons = << >>
    /\ regime = "none" /\ threshold = 0 /\ signal = "none" /\ confidence = 0
    /\ targets = Null /\ gresult = Null
    /\ before = [buyScore |-> 0, sellScore |-> 0, threshold |-> 0]
    /\ fpc = "idle" /\ fargs = Null /\ fvalue = << >> /\ fsource = "none" /\ ftrace = << >>
    /\ demoRuns = << >>
    /\ hpc = "idle" /\ req = Null /\ safe = Null /\ warnings = << >> /\ settled = Null
    /\ ohlcv = NoCandles /\ responses = << >> /\ failures = FALSE

SpecSignal == SignalInit /\ [][SignalNext]_vars

\* ------------------------------------------------------------------------
\* Properties
\* ------------------------------------------------------------------------
\* C1: fetchOHLCV never throws or rejects: whatever the primary and the
\* secondary provider answer, the call is never in a thrown state, and what
\* it returns is a sequence of candles.
FetchNeverThrows ==
    /\ fpc \in {"idle", "primary", "secondary", "synthetic", "returned"}
    /\ fpc = "returned" => IsCandleSeq(fvalue)

\* both providers failed and the call still returned candles
WitnessBothProvidersFailed ==
    /\ fpc = "returned"
    /\ Len(ftrace) = 3
    /\ ftrace[1].failed /\ ftrace[2].failed
    /\ Len(fvalue) > 0

\* C2: the sources are attempted in the order primary, secondary, synthetic,
\* each at most once, and a source is attempted only after the one before it
\* has failed.
FallbackSequential ==
    LET order == <<"primary", "secondary", "synthetic">>
    IN  /\ Len(ftrace) <= 3
        /\ \A i \in 1..Len(ftrace) :
              /\ ftrace[i].source = order[i]
              /\ i > 1 => ftrace[i - 1].failed
        /\ fpc = "returned" => ~ftrace[Len(ftrace)].failed

\* the primary failed once and the secondary answered
WitnessSecondaryAnswered ==
    /\ fpc = "returned"
    /\ fsource = "secondary"
    /\ Len(ftrace) = 2
    /\ ftrace[1].failed

\* C3: a 200 response whose signal was computed from candles of the secondary
\* provider or of the generator says so: its dataSource is not 'live', or it
\* is degraded with a warning.
FallbackAlwaysFlagged ==
    \A i \in 1..Len(responses) :
        LET b == responses[i].body
        IN  (responses[i].status = 200 /\ b.candlesFrom \in {"secondary", "synthetic"})
            => (b.dataSource # "live" \/ (b.degraded /\ Len(b.warnings) > 0))

\* C4: a GET or POST request gets exactly one response, with status 200 and a
\* signal; when a collaborator rejected, threw or yielded no candles the body
\* is degraded and has warnings.
HandlerAlwaysAnswers ==
    /\ Len(responses) <= 1
    /\ hpc = "done" => Len(responses) = 1
    /\ hpc \in {"start", "settle", "refetch1", "context", "refetch2", "generate",
                "catch", "catch2"} => Len(responses) = 0
    /\ hpc \in {"idle", "start", "settle", "refetch1", "context", "refetch2", "generate",
                "catch", "catch2", "done"}
    /\ \A i \in 1..Len(responses) :
          req.method \in {"GET", "POST"} =>
             /\ responses[i].status = 200
             /\ responses[i].body.kind = "signal"
             /\ responses[i].body.signal \in {"BUY", "SELL", "HOLD"}
             /\ failures => /\ responses[i].body.degraded
                            /\ Len(responses[i].body.warnings) > 0

\* only the catalyst fetch rejected and the signal was still served
WitnessCatalystRejected ==
    /\ hpc = "done"
    /\ settled.ohlcv = "fulfilled" /\ settled.futures = "fulfilled"
    /\ settled.catalyst = "rejected"
    /\ Len(responses) = 1
    /\ responses[1].body.signal = "BUY"
    /\ responses[1].body.warnings = <<"Catalyst watch unavailable, served neutral values">>

Decided == gpc \in {"confidence", "targets", "result", "returned", "thrown"}

\* C5: the signal is BUY exactly when buyScore >= threshold, buyScore >
\* sellScore and |buyScore - sellScore| >= 0.9, SELL exactly under the
\* symmetric condition and HOLD otherwise, so HOLD whenever the edge is under
\* 0.9; the scores are those after contradiction resolution and the threshold
\* is 4.9 / 3.6 / 2.6 for conservative / moderate / aggressive and 3.6 for
\* anything else, plus 0.2 in a range regime, plus 0.2 when volatility20 > 0.025.
DecisionRule ==
    Decided =>
        LET base == IF gargs.riskTolerance = "conservative" THEN (49 * ScoreScale) \div 10
                    ELSE IF gargs.riskTolerance = "aggressive" THEN (26 * ScoreScale) \div 10
                    ELSE (36 * ScoreScale) \div 10
            rangeAdd == IF regime = "range" THEN (2 * ScoreScale) \div 10 ELSE 0
            volAdd == IF ind.volatility20 # Null /\ ind.volatility20 * 1000 > 25 * RatioScale
                      THEN (2 * ScoreScale) \div 10 ELSE 0
            edge == Abs(buyScore - sellScore)
            wide == edge * 10 >= 9 * ScoreScale
        IN  /\ threshold = base + rangeAdd + volAdd
            /\ signal = "BUY" <=> (buyScore >= threshold /\ buyScore > sellScore /\ wide)
            /\ signal = "SELL" <=> (sellScore >= threshold /\ sellScore > buyScore /\ wide)
            /\ signal \in {"BUY", "SELL", "HOLD"}
            /\ ~wide => signal = "HOLD"
            /\ gpc = "returned" => gresult.signal = signal

\* a score reached the threshold and beat the other one, by less than 0.9
WitnessEdgeTooSmall ==
    /\ gpc = "returned"
    /\ gresult.signal = "HOLD"
    /\ buyScore >= threshold
    /\ buyScore > sellScore
    /\ sellScore > 0
    /\ (buyScore - sellScore) * 10 < 9 * ScoreScale

\* C6: on every call that returns, the confidence is within [40, 65] for HOLD
\* and within [55, 95] for BUY and SELL, where it is dominantScore*13 + edge*16
\* + evidenceCount*2 clamped to [55, 95], evidenceCount being the number of
\* rules that scored for the winning side.
ConfidenceRange ==
    gpc = "returned" =>
        LET tenths == gresult.confidence
            edge == Abs(buyScore - sellScore)
            dominant == IF buyScore >= sellScore THEN buyScore ELSE sellScore
            winners == IF gresult.signal = "BUY" THEN buyEvidence ELSE sellEvidence
            raw == dominant * 13 + edge * 16 + winners * 2 * ScoreScale
            bounded == IF raw < 55 * ScoreScale THEN 55 * ScoreScale
                       ELSE IF raw > 95 * ScoreScale THEN 95 * ScoreScale
                       ELSE raw
        IN  /\ gresult.signal = "HOLD" => (400 <= tenths /\ tenths <= 650)
            /\ gresult.signal \in {"BUY", "SELL"} =>
                  /\ 550 <= tenths /\ tenths <= 950
                  /\ tenths = (bounded * 20 + ScoreScale) \div (2 * ScoreScale)

\* a SELL whose confidence is strictly inside the clamp and whose two sides
\* have different evidence counts
WitnessSellInsideClamp ==
    /\ gpc = "returned"
    /\ gresult.signal = "SELL"
    /\ gresult.confidence > 550
    /\ gresult.confidence < 950
    /\ sellEvidence > buyEvidence
    /\ buyEvidence > 0

StepLeftScores ==
    /\ buyScore = before.buyScore
    /\ sellScore = before.sellScore
    /\ threshold = before.threshold

\* with volatility20 needing volatilityWindow candles and volumeRatio needing
\* volumeWindow candles: every indicator is null on fewer candles than its
\* window, and the step of each rule or threshold adjustment that reads an
\* indicator leaves buyScore, sellScore and threshold as they were
WindowsRespected(volatilityWindow, volumeWindow) ==
    gpc # "call" =>
        LET n == CandleCount
        IN  /\ n < 15 => ind.rsi = Null
            /\ n < 26 => ind.macd = NullMacd
            /\ n < 35 => (ind.macd.signal = Null /\ ind.macd.histogram = Null)
            /\ n < 20 => ind.bollingerBands = NullBands
            /\ n < 20 => ind.ema20 = Null
            /\ n < 50 => ind.ema50 = Null
            /\ n < 200 => ind.sma200 = Null
            /\ n < 15 => ind.atr14 = Null
            /\ n < 4 => ind.momentum3 = Null
            /\ n < 11 => ind.momentum10 = Null
            /\ n < volatilityWindow => ind.volatility20 = Null
            /\ n < volumeWindow => ind.volumeRatio = Null
            /\ (gpc = "macd" /\ n < 15) => StepLeftScores
            /\ (gpc = "bollinger" /\ n < 35) => StepLeftScores
            /\ (gpc = "bandwidth" /\ n < 20) => StepLeftScores
            /\ (gpc = "ema" /\ n < 20) => StepLeftScores
            /\ (gpc = "sma200" /\ n < 50) => StepLeftScores
            /\ (gpc = "momentum" /\ n < 200) => StepLeftScores
            /\ (gpc = "volume" /\ n < 11) => StepLeftScores
            /\ (gpc = "contradiction" /\ n < volumeWindow) => StepLeftScores
            /\ (gpc = "decide" /\ n < volatilityWindow) => StepLeftScores

\* C7 as stated, volatility20 being over 20 returns (21 candles) and
\* volumeRatio over 20 candles: on fewer candles than an indicator's window
\* the indicator is null and no rule or threshold adjustment that reads it
\* changes buyScore, sellScore or the threshold.
WindowsOfTwenty == WindowsRespected(21, 20)

\* C7 amended: the same with the windows rsi 15, macd 26 (signal and
\* histogram 35), bollingerBands 20, ema20 20, ema50 50, sma200 200, atr14 15,
\* momentum3 4, momentum10 11, volatility20 2 candles (one return) and
\* volumeRatio 1 candle.
WindowsAsComputed == WindowsRespected(2, 1)

\* 199 candles: the SMA200 rule has just been passed with other rules having
\* scored, and sma200 is null
WitnessNoSma200 ==
    /\ gpc = "momentum"
    /\ CandleCount = 199
    /\ ind.sma200 = Null
    /\ buyScore > 0
    /\ sellScore > 0
    /\ StepLeftScores

\* C8: generateSignal returns a Signal object for every candle sequence, the
\* empty one included; it never throws.
SignalNeverThrows == gpc # "thrown"

\* C9: macd gives line, signal and histogram all null on fewer than 26
\* closes, a non-null signal exactly on 35 closes or more, a non-null
\* histogram exactly when the signal is non-null, and a non-null line from 26
\* closes on; the same holds of the macd of the closes without the last one.
MacdNullness ==
    gpc # "call" =>
        LET n == CandleCount
        IN  /\ n < 26 => ind.macd = NullMacd
            /\ n >= 26 => ind.macd.line # Null
            /\ ind.macd.signal # Null <=> n >= 35
            /\ ind.macd.histogram # Null <=> ind.macd.signal # Null
            /\ n > 30 => /\ prevMacd.line # Null
                         /\ prevMacd.signal # Null <=> n - 1 >= 35
                         /\ prevMacd.histogram # Null <=> prevMacd.signal # Null

\* 34 closes: a line without signal and histogram
WitnessLineOnly ==
    /\ gpc = "returned"
    /\ CandleCount = 34
    /\ ind.macd.line # Null
    /\ ind.macd.signal = Null
    /\ ind.macd.histogram = Null

SameDemoArgs(a, b) ==
    a.symbol = b.symbol /\ a.timeframe = b.timeframe /\ a.limit = b.limit

\* C10 as stated: two invocations of the generator with the same symbol,
\* timeframe and limit produce identical candles, timestamps included.
DemoByteIdentical ==
    \A i, j \in 1..Len(demoRuns) :
        SameDemoArgs(demoRuns[i], demoRuns[j]) => demoRuns[i].candles = demoRuns[j].candles

\* C10 amended: two invocations with the same symbol, timeframe and limit
\* produce the same number of candles with identical open, high, low, close
\* and volume; the timestamps of corresponding candles differ by exactly the
\* difference of the two clock readings.
DemoDeterministicUpToClock ==
    \A i, j \in 1..Len(demoRuns) :
        SameDemoArgs(demoRuns[i], demoRuns[j]) =>
            /\ Len(demoRuns[i].candles) = Len(demoRuns[j].candles)
            /\ \A k \in 1..Len(demoRuns[i].candles) :
                  LET a == demoRuns[i].candles[k]
                      b == demoRuns[j].candles[k]
                  IN  /\ <<a.open, a.high, a.low, a.close, a.volume>>
                           = <<b.open, b.high, b.low, b.close, b.volume>>
                      /\ a.timestamp - b.timestamp = demoRuns[i].now - demoRuns[j].now

\* the same arguments at two different clock readings
WitnessDemoTwoClocks ==
    /\ Len(demoRuns) = 2
    /\ SameDemoArgs(demoRuns[1], demoRuns[2])
    /\ demoRuns[1].now # demoRuns[2].now
    /\ Len(demoRuns[1].candles) = 2

\* C11: on at least 15 closes the 14-period rsi is within [0, 100]; it is
\* exactly 100 when no delta of the trailing window is negative and strictly
\* below 100 when some delta of the window is negative.
RsiRange ==
    (gpc # "call" /\ CandleCount >= 15) =>
        LET n == CandleCount
            falls == \E k \in (n - 13)..n : CloseAt(gargs.shape, k) < CloseAt(gargs.shape, k - 1)
        IN  /\ 0 <= ind.rsi /\ ind.rsi <= 100 * RsiScale
            /\ ~falls => ind.rsi = 100 * RsiScale
            /\ falls => ind.rsi < 100 * RsiScale

\* fifteen flat closes or more: no gain and no loss in the window, rsi is 100
WitnessFlatRsi ==
    /\ gpc = "returned"
    /\ CandleCount >= 15
    /\ gargs.shape.lead = 0 /\ gargs.shape.tail = 0 /\ gargs.shape.zig = 0
    /\ ind.rsi = 100 * RsiScale

\* C12: buyScore and sellScore are never negative; the contradiction step
\* acts exactly when both were positive, then takes 0.35 * min(buyScore,
\* sellScore) from each and appends its one reason, and otherwise changes
\* neither score and appends nothing.
ScoresNonNegative ==
    /\ buyScore >= 0
    /\ sellScore >= 0
    /\ gpc = "threshold" =>
          LET told == {k \in 1..Len(reasons) :
                          reasons[k] = "Bullish and bearish evidence both present"}
              least == IF before.buyScore <= before.sellScore
                       THEN before.buyScore ELSE before.sellScore
          IN  IF before.buyScore > 0 /\ before.sellScore > 0
              THEN /\ (before.buyScore - buyScore) * 100 = least * 35
                   /\ (before.sellScore - sellScore) * 100 = least * 35
                   /\ told = {Len(reasons)}
              ELSE /\ buyScore = before.buyScore
                   /\ sellScore = before.sellScore
                   /\ told = {}

\* both sides had scored, the smaller more than 0.35 of the larger: the
\* penalty has just been taken
WitnessContradiction ==
    /\ gpc = "threshold"
    /\ before.sellScore > 0
    /\ before.buyScore > before.sellScore
    /\ before.sellScore * 100 > before.buyScore * 35
    /\ buyScore < before.buyScore

\* C13: riskReward is 0 on HOLD and on BUY and SELL is |takeProfit2 - price|
\* / |price - stopLoss| to two decimals, from the rounded takeProfit2 and
\* stopLoss of the result (8 / 1.5 gives 5.33); where the rounded stop is the
\* price the quotient is Infinity, or 0 when takeProfit2 is the price too.
RiskRewardRule ==
    gpc = "returned" =>
        LET gain == gresult.takeProfit2 - gresult.currentPrice
            risk == gresult.currentPrice - gresult.stopLoss
            reward == IF gain < 0 THEN -gain ELSE gain
            atRisk == IF risk < 0 THEN -risk ELSE risk
        IN  /\ gresult.signal = "HOLD" => gresult.riskReward = 0
            /\ gresult.signal \in {"BUY", "SELL"} =>
                  gresult.riskReward =
                     IF atRisk > 0 THEN (2 * reward * 100 + atRisk) \div (2 * atRisk)
                     ELSE IF reward > 0 THEN Infinity
                     ELSE 0

\* a BUY on the swing horizon whose stop is the base 1.5%: 8% over 1.5%
WitnessSwingBuy ==
    /\ gpc = "returned"
    /\ gargs.signalType = "swing"
    /\ gresult.signal = "BUY"
    /\ gresult.stopLossPct = -150
    /\ gresult.takeProfit2Pct = 800
    /\ gresult.riskReward = 533

\* C14: the size of stopLossPct is max(baseSL, 1.1 * ATR / price), or baseSL
\* without an ATR, clamped to [0.85 * baseSL, 1.9 * baseSL], so it lies within
\* those bounds; stopLossPct and takeProfit1Pct have opposite signs.
StopLossRule ==
    gpc = "returned" =>
        LET baseSL == IF gargs.signalType = "scalp" THEN 500
                      ELSE IF gargs.signalType = "position" THEN 3000
                      ELSE 1500
            low == (baseSL * 85) \div 100
            high == (baseSL * 19) \div 10
            widened == IF ind.atr14 = Null THEN baseSL
                       ELSE IF (((ind.atr14 * 1000) \div ind.currentPrice) * 11) \div 10 > baseSL
                       THEN (((ind.atr14 * 1000) \div ind.currentPrice) * 11) \div 10
                       ELSE baseSL
            bounded == IF widened < low THEN low ELSE IF widened > high THEN high ELSE widened
            size == IF gresult.stopLossPct < 0 THEN -gresult.stopLossPct ELSE gresult.stopLossPct
        IN  /\ size = (2 * bounded + 10) \div 20
            /\ low <= 10 * size /\ 10 * size <= high
            /\ (gresult.stopLossPct < 0) = (gresult.takeProfit1Pct > 0)
            /\ gresult.stopLossPct # 0 /\ gresult.takeProfit1Pct # 0

\* a scalp SELL on choppy candles: the stop is widened up to 1.9 * 0.5%
WitnessStopCapped ==
    /\ gpc = "returned"
    /\ gargs.signalType = "scalp"
    /\ gresult.signal = "SELL"
    /\ gresult.stopLossPct = 95
    /\ gresult.takeProfit1Pct = -100


\* C15: a request through the handler whose horizon is scalp, swing or position
\* is answered with targets from that horizon's base percentages (take-profit
\* percentages 1 and 2, 3 and 8, 10 and 20), and any other horizon with those
\* of swing; the payload of the catch block, which is always swing, is left out.
HorizonHonoured ==
    \A i \in 1..Len(responses) :
        LET b == responses[i].body
            asked == IF req.signalType \in {"scalp", "swing", "position"}
                     THEN req.signalType ELSE "swing"
        IN  (/\ responses[i].status = 200
             /\ ~IsNull(b.takeProfit1Pct)
             /\ b.warnings # <<"Signal generation failed, fallback payload returned">>)
            => /\ Abs(b.takeProfit1Pct) = Fixed(TargetPcts(asked)[1], RatioScale, 10000)
               /\ Abs(b.takeProfit2Pct) = Fixed(TargetPcts(asked)[2], RatioScale, 10000)


\* the candles of the call are 300 closes, each above the one before
StrictlyRising ==
    /\ gpc # "call"
    /\ CandleCount = 300
    /\ \A k \in 2..CandleCount : CloseAt(gargs.shape, k) > CloseAt(gargs.shape, k - 1)

\* C16 as stated: on 300 strictly rising candles the regime is uptrend and the
\* returned signal is BUY or HOLD, never SELL.
RisingIsUptrendNeverSell ==
    (StrictlyRising /\ gpc = "returned")
        => (regime = "uptrend" /\ gresult.signal \in {"BUY", "HOLD"})

\* C16: on 300 strictly rising candles RSI is 100 and the regime is uptrend
\* when (ema20 - ema50) / price is at least 0.012 and range otherwise, never
\* downtrend; the SMA200 and momentum rules score for the buy side, and the
\* returned signal is SELL only when at least two of the RSI, MACD and upper
\* Bollinger band rules scored for the sell side.
RisingRegimeByBias ==
    (StrictlyRising /\ gpc = "returned")
        => /\ ind.rsi = 100 * RsiScale
           /\ regime = (IF trendBias(ind) >= (12 * RatioScale) \div 1000
                        THEN "uptrend" ELSE "range")
           /\ buyEvidence >= 2
           /\ gresult.signal = "SELL" => sellEvidence >= 2

\* a steady rise of one cent per candle has returned in a ranging regime
WitnessSlowRiseRanges ==
    /\ StrictlyRising
    /\ gpc = "returned"
    /\ gargs.shape.lead = 1 /\ gargs.shape.tail = 1
    /\ regime = "range"
    /\ gresult.signal = "BUY"


\* the place in the evaluation order of the rule that logs a reason
RuleOrder(reason) ==
    CASE reason \in {"Market regime: ranging", "Market regime: trend"} -> 1
      [] reason \in {"RSI pullback in uptrend", "RSI extended in uptrend",
                     "RSI healthy for uptrend continuation", "RSI bounce in downtrend",
                     "RSI deeply oversold", "RSI neutral within downtrend",
                     "RSI oversold in range", "RSI overbought in range",
                     "RSI neutral in ranging market"} -> 2
      [] reason \in {"MACD fresh bullish crossover", "MACD bullish momentum is strengthening",
                     "MACD remains bullish", "MACD fresh bearish crossover",
                     "MACD bearish momentum is strengthening", "MACD remains bearish",
                     "MACD near equilibrium"} -> 3
      [] reason \in {"Price touched lower Bollinger Band",
                     "Price touched upper Bollinger Band"} -> 4
      [] reason = "Bollinger bandwidth compressed" -> 5
      [] reason \in {"Price above EMA20 > EMA50", "Price below EMA20 < EMA50",
                     "EMA structure mixed"} -> 6
      [] reason \in {"Price above SMA200", "Price below SMA200"} -> 7
      [] reason \in {"Short and medium-term momentum aligned upward",
                     "Short and medium-term momentum aligned downward",
                     "Momentum mixed across time windows"} -> 8
      [] reason \in {"Volume spike", "Volume below average"} -> 9
      [] reason = "Bullish and bearish evidence both present" -> 10
      [] reason = "Insufficient directional edge after confluence check" -> 11
      [] OTHER -> 0

\* C17: the reasons list only grows by appending; the regime reason is first,
\* the reasons of RSI, MACD, Bollinger touch, Bollinger compression, EMA
\* structure, SMA200, momentum, volume and contradiction resolution follow in
\* that order, each at most once, the HOLD explanation is last and is there
\* exactly when the signal is HOLD, and the result carries the list unchanged.
ReasonsAppendOnly ==
    /\ [](\A k \in 1..Len(reasons) :
             /\ RuleOrder(reasons[k]) >= 1
             /\ k = 1 => RuleOrder(reasons[k]) = 1
             /\ k > 1 => RuleOrder(reasons[k - 1]) < RuleOrder(reasons[k]))
    /\ [](gpc \notin {"call", "regime"} => Len(reasons) >= 1)
    /\ [](gpc = "returned" =>
             /\ gresult.reasons = reasons
             /\ (gresult.signal = "HOLD") = (RuleOrder(reasons[Len(reasons)]) = 11))
    /\ [][/\ Len(reasons') >= Len(reasons)
          /\ Len(reasons') <= Len(reasons) + 1
          /\ SubSeq(reasons', 1, Len(reasons)) = reasons]_vars

\* a HOLD has returned with a reason from every rule
WitnessManyReasons ==
    /\ gpc = "returned"
    /\ gresult.signal = "HOLD"
    /\ Len(reasons) = 11


\* C18: a call of fetchOHLCV with limit >= 1 never returns an empty sequence:
\* a provider that answers with zero candles is passed over for the next one.
EmptyFallsThrough ==
    (fpc = "returned" /\ fargs.limit >= 1) => Len(fvalue) >= 1


Compressed == HasBands(ind.bollingerBands) /\ bandWidth(ind.bollingerBands) < (4 * RatioScale) \div 100

\* what the rules before the compression check give one side
EarlyPoints(side) ==
    LET pts(rule) == IF rule.side = side THEN rule.points ELSE 0
    IN  pts(RsiRule(ind, regime)) + pts(MacdRule(ind.macd, prevMacd))
          + pts(BollingerRule(ind, regime))

\* C20: when the band width is below 0.04 both scores are multiplied by 0.95
\* once, at the compression check, and one reason is appended there; the
\* factor reaches what the RSI, MACD and Bollinger touch rules gave, and the
\* weights of the EMA structure, SMA200, momentum and volume rules that come
\* after it are added in full.
CompressionOnce ==
    /\ gpc = "ema" =>
          IF Compressed
          THEN /\ buyScore = (EarlyPoints("buy") * 95) \div 100
               /\ sellScore = (EarlyPoints("sell") * 95) \div 100
               /\ reasons[Len(reasons)] = "Bollinger bandwidth compressed"
          ELSE buyScore = EarlyPoints("buy") /\ sellScore = EarlyPoints("sell")
    /\ gpc = "sma200" => /\ buyScore - before.buyScore \in {0, Points(15)}
                         /\ sellScore - before.sellScore \in {0, Points(15)}
    /\ gpc = "momentum" => /\ buyScore - before.buyScore \in {0, Points(7)}
                           /\ sellScore - before.sellScore \in {0, Points(7)}
    /\ gpc = "volume" => /\ buyScore - before.buyScore \in {0, Points(11)}
                         /\ sellScore - before.sellScore \in {0, Points(11)}
    /\ (gpc = "contradiction" /\ ~IsNull(ind.volumeRatio)
          /\ ind.volumeRatio > (16 * RatioScale) \div 10) =>
          buyScore + sellScore = before.buyScore + before.sellScore
              + (IF before.buyScore = before.sellScore THEN 0 ELSE Points(6))
    /\ gpc \in {"ema", "sma200", "momentum", "volume", "contradiction", "threshold",
                "volatility", "decide", "confidence", "targets", "result", "returned"} =>
          Cardinality({k \in 1..Len(reasons) : reasons[k] = "Bollinger bandwidth compressed"})
              = (IF Compressed THEN 1 ELSE 0)

\* compressed bands have discounted earlier buy weight and left later buy
\* weight whole
WitnessDiscountThenFullWeights ==
    /\ gpc = "sma200"
    /\ Compressed
    /\ before.buyScore = (EarlyPoints("buy") * 95) \div 100
    /\ before.buyScore < EarlyPoints("buy")
    /\ buyScore = before.buyScore + Points(15)


\* every warning of the try block, in the order of the statements that push it
WarningOrder ==
    <<"Invalid timeframe normalized to 4h",
      "Invalid signalType normalized to swing",
      "Invalid riskTolerance normalized to moderate",
      "Primary OHLCV unavailable, switched to demo fallback",
      "Futures context unavailable, served neutral values",
      "Catalyst watch unavailable, served neutral values",
      "OHLCV fallback still unavailable, generated last-resort demo">>

\* the warnings that the request and the outcomes of the three fetches call
\* for; lastResort tells whether the second candle fetch came back empty
WarningsFor(r, st, lastResort) ==
    LET norm == NormalizationWarnings(r)
        due(w) ==
            \/ \E k \in 1..Len(norm) : norm[k] = w
            \/ /\ w = "Primary OHLCV unavailable, switched to demo fallback"
               /\ ~(st.ohlcv = "fulfilled" /\ st.rows > 0)
            \/ w = "Futures context unavailable, served neutral values" /\ st.futures # "fulfilled"
            \/ w = "Catalyst watch unavailable, served neutral values" /\ st.catalyst # "fulfilled"
            \/ /\ w = "OHLCV fallback still unavailable, generated last-resort demo"
               /\ lastResort
               /\ ~(st.ohlcv = "fulfilled" /\ st.rows > 0)
    IN  SelectSeq(WarningOrder, due)

\* C21: the handler goes past the await only when the candle, futures and
\* catalyst fetches have all settled; the body of a signal computed in the try
\* block (warnings, their order, degraded, the candles used) is determined by
\* the request and the outcome of each fetch, whatever the order in which they
\* settled; and with candles at hand a rejected futures or catalyst fetch
\* neither diverts the handler to the catch block nor replaces the candles.
SettleOrderIrrelevant ==
    /\ [](hpc \in {"refetch1", "context", "refetch2", "generate", "catch", "catch2"}
             => Len(settled.order) = 3)
    /\ []((hpc \in {"context", "generate"} /\ settled.ohlcv = "fulfilled" /\ settled.rows > 0)
             => ohlcv.n = settled.rows)
    /\ [](\A i \in 1..Len(responses) :
             LET b == responses[i].body
             IN  (/\ responses[i].status = 200
                  /\ b.dataSource # "fallback"
                  /\ b.warnings # <<"Signal generation failed, fallback payload returned">>)
                 => /\ \E lastResort \in BOOLEAN : b.warnings = WarningsFor(req, settled, lastResort)
                    /\ b.degraded = (Len(b.warnings) > 0)
                    /\ b.candlesFrom = ohlcv.source)
    /\ [][(hpc = "settle" /\ hpc' = "catch")
             => "threw" \in {settled.ohlcv, settled.futures, settled.catalyst}]_vars

\* the catalyst fetch rejected first, the futures fetch rejected last, and the
\* signal computed from the candles lists the futures warning first
WitnessCatalystSettledFirst ==
    /\ hpc = "done"
    /\ settled.order = <<"catalyst", "ohlcv", "futures">>
    /\ settled.ohlcv = "fulfilled" /\ settled.rows > 0
    /\ settled.futures = "rejected" /\ settled.catalyst = "rejected"
    /\ Len(responses) = 1
    /\ responses[1].body.signal = "SELL"
    /\ responses[1].body.candlesFrom = "primary"
    /\ responses[1].body.warnings = <<"Futures context unavailable, served neutral values",
                                      "Catalyst watch unavailable, served neutral values">>


\* the thresholds the decision of this call can use: the base of the risk
\* tolerance, plus 0.2 in a range regime, with or without the 0.2 of volatility
PossibleThresholds ==
    {thresholds(gargs.riskTolerance) + (IF regime = "range" THEN Points(2) ELSE 0) + v :
        v \in {0, Points(2)}}

RuleWeights(pc) ==
    CASE pc = "rsi" -> {Points(11), Points(12), Points(16), Points(18)}
      [] pc = "macd" -> {Points(11), Points(14), Points(19)}
      [] pc = "bollinger" -> {Points(8), Points(14)}
      [] pc = "ema" -> {Points(15)}
      [] pc = "sma200" -> {Points(7)}
      [] pc = "momentum" -> {Points(11)}
      [] OTHER -> {}

\* C23: each of the RSI, MACD, Bollinger touch, EMA structure, SMA200 and
\* momentum rules either credits one side, adding its weight, one to that
\* side's evidence counter and one reason while the other side stays, or
\* credits neither; no other step moves an evidence counter; so the two
\* counters sum to at most 6 and a side with no evidence has score 0.
EvidenceCounted ==
    /\ [](buyEvidence + sellEvidence <= 6)
    /\ [](gpc # "idle" => /\ buyEvidence = 0 => buyScore = 0
                          /\ sellEvidence = 0 => sellScore = 0)
    /\ [][IF gpc \in {"rsi", "macd", "bollinger", "ema", "sma200", "momentum"}
          THEN \/ /\ buyEvidence' = buyEvidence + 1
                  /\ buyScore' - buyScore \in RuleWeights(gpc)
                  /\ sellEvidence' = sellEvidence /\ sellScore' = sellScore
                  /\ Len(reasons') = Len(reasons) + 1
               \/ /\ sellEvidence' = sellEvidence + 1
                  /\ sellScore' - sellScore \in RuleWeights(gpc)
                  /\ buyEvidence' = buyEvidence /\ buyScore' = buyScore
                  /\ Len(reasons') = Len(reasons) + 1
               \/ /\ buyEvidence' = buyEvidence /\ sellEvidence' = sellEvidence
                  /\ buyScore' = buyScore /\ sellScore' = sellScore
          ELSE buyEvidence' = buyEvidence /\ sellEvidence' = sellEvidence]_vars

\* all six rules have credited a side, both sides among them
WitnessSixEvidence ==
    /\ gpc = "returned"
    /\ buyEvidence + sellEvidence = 6
    /\ buyEvidence > 0 /\ sellEvidence > 0


\* C24: on every BUY or SELL the rounded levels are strictly ordered around
\* the price (BUY: stopLoss < price < takeProfit1 < takeProfit2, SELL the
\* reverse) and riskReward is a finite positive number.
LevelsStrictlyOrdered ==
    gpc = "returned" =>
        /\ gresult.signal = "BUY" =>
              /\ gresult.stopLoss < gresult.currentPrice
              /\ gresult.currentPrice < gresult.takeProfit1
              /\ gresult.takeProfit1 < gresult.takeProfit2
        /\ gresult.signal = "SELL" =>
              /\ gresult.takeProfit2 < gresult.takeProfit1
              /\ gresult.takeProfit1 < gresult.currentPrice
              /\ gresult.currentPrice < gresult.stopLoss
        /\ gresult.signal \in {"BUY", "SELL"} =>
              /\ gresult.riskReward > 0
              /\ gresult.riskReward < Infinity


\* C25: a candle returned by the secondary provider carries the volume sample
\* of the same position of the provider's series as its price. The k-th point
\* of prices and of total_volumes both carry the timestamp k hours, and the
\* k-th volume sample is 1000 + k, so the volume of a candle is either that of
\* its own hour or, when the volume series is too short, 0.
VolumeAlignedWithPrice ==
    (fpc = "returned" /\ fsource = "secondary") =>
        \A k \in 1..Len(fvalue) :
            fvalue[k].volume \in {0, 1000 + fvalue[k].timestamp \div 3600000}

============================================================================
